---- MODULE Spec2Model ----
(***************************************************************************)
(* gophpfpm: an HTTP reverse proxy in front of PHP-FPM.                    *)
(*                                                                         *)
(* The module models                                                       *)
(*   - the connection pool of FCgiClient (a buffered channel of slots),    *)
(*   - SendRequest with its one-shot reconnect-and-retry,                  *)
(*   - the default route handler racing FpmClient.Call against a deadline, *)
(*   - shutdown (http.Server.Shutdown, then FCgiClient.Close),             *)
(*   - the header mappings of the adapter (inbound HTTP_* parameters and   *)
(*     the outbound protected-header filter) as operators on strings,      *)
(*     strings being sequences of one-character strings.                   *)
(***************************************************************************)
EXTENDS Integers, Sequences, FiniteSets, TLC, Bags

(***************************************************************************)
(* Bounds of the model.                                                    *)
(***************************************************************************)
\* config.FpmPoolSize: the number of pooled connections.
FpmPoolSize == 1

\* The largest config.FpmPoolSize NewFCgiClient is run with.
MaxPoolSize == 10

\* Number of proxied HTTP requests the listener serves in one behaviour.
NumRequests == 2

\* Number of header lines of one FastCGI reply / one inbound HTTP request.
MaxHeaderLines == 2

\* The most records FPM sends before the last END_REQUEST of a stream.
MaxRecords == 2

Requests == 1..NumRequests
Slots    == 0..(FpmPoolSize - 1)      \* FCgiConnection.id

NoConn == -1

Range(s) == {s[i] : i \in DOMAIN s}

VARIABLES
    Pool,         \* FCgiClient.Pool: the idle slots, a FIFO channel
    Conn,         \* per slot: FCgiConnection.Conn, whether the socket is open
    phase,        \* "running", "draining", "closing", "closed"
    nClosed,      \* FCgiClient.Close: loop counter i
    hpc,          \* per request: the handler goroutine, "idle", "select", "done"
    wpc,          \* per request: the goroutine running fpmClient.Call
    conn,         \* per request: SendRequest's local variable conn
    fpmResponse,  \* per request: the handler's captured variable fpmResponse
    fpmErr,       \* per request: the handler's captured variable fpmErr
    writer,       \* per request: what the handler wrote to the http.ResponseWriter
    hlog,         \* per request: log entries of the handler
    httpObs,      \* per request: observations of monitor.HttpDurationHistogram
    fpmObs,       \* per request: observations of monitor.FmpDurationHistogram
    events,       \* per request: how often SendRequest acquired, called doRequest and
                  \* reconnect, and released
    arg,          \* input of the adapter function under check (pure specifications)
    out           \* its result

poolVars    == <<Pool, Conn>>
serverVars  == <<phase, nClosed>>
workerVars  == <<wpc, conn, fpmResponse, fpmErr, fpmObs, events>>
handlerVars == <<hpc, writer, hlog, httpObs>>
pureVars    == <<arg, out>>
vars == <<Pool, Conn, phase, nClosed, hpc, wpc, conn, fpmResponse, fpmErr,
          writer, hlog, httpObs, fpmObs, events, arg, out>>

(***************************************************************************)
(* Strings.  A header name or a parameter key is a sequence of             *)
(* one-character strings, so that case conversion and concatenation are    *)
(* computed and two keys are equal only if they are spelled alike.         *)
(* Header values are opaque.                                               *)
(***************************************************************************)
UpperChars == <<"A", "B", "C", "D", "E", "F", "G", "H", "I", "J", "K", "L", "M",
                "N", "O", "P", "Q", "R", "S", "T", "U", "V", "W", "X", "Y", "Z">>
LowerChars == <<"a", "b", "c", "d", "e", "f", "g", "h", "i", "j", "k", "l", "m",
                "n", "o", "p", "q", "r", "s", "t", "u", "v", "w", "x", "y", "z">>

IsUpper(c) == \E i \in DOMAIN UpperChars : UpperChars[i] = c
IsLower(c) == \E i \in DOMAIN LowerChars : LowerChars[i] = c
LowerChar(c) == IF IsUpper(c)
                THEN LowerChars[CHOOSE i \in DOMAIN UpperChars : UpperChars[i] = c]
                ELSE c
UpperChar(c) == IF IsLower(c)
                THEN UpperChars[CHOOSE i \in DOMAIN LowerChars : LowerChars[i] = c]
                ELSE c

\* strings.ToLower, strings.ToUpper
ToLower(s) == [i \in DOMAIN s |-> LowerChar(s[i])]
ToUpper(s) == [i \in DOMAIN s |-> UpperChar(s[i])]

\* textproto.CanonicalMIMEHeaderKey, applied by http.ReadResponse to the
\* header names of the reply and by the HTTP server to those of the request:
\* the first letter and every letter after a hyphen in upper case, the others
\* in lower case.
CanonicalMIMEHeaderKey(s) ==
    [i \in DOMAIN s |-> IF i = 1 \/ s[i - 1] = "-" THEN UpperChar(s[i]) ELSE LowerChar(s[i])]

\* The header names the code spells out.
S_content_type   == <<"c", "o", "n", "t", "e", "n", "t", "-", "t", "y", "p", "e">>
S_content_length == <<"c", "o", "n", "t", "e", "n", "t", "-", "l", "e", "n", "g", "t", "h">>
S_x_powered_by   == <<"x", "-", "p", "o", "w", "e", "r", "e", "d", "-", "b", "y">>
S_x_app_route    == <<"x", "-", "a", "p", "p", "-", "r", "o", "u", "t", "e">>
H_Content_type   == <<"C", "o", "n", "t", "e", "n", "t", "-", "t", "y", "p", "e">>
H_X_App_Route    == <<"X", "-", "A", "p", "p", "-", "R", "o", "u", "t", "e">>
H_Status         == <<"S", "t", "a", "t", "u", "s">>

protectedHeadersInbound  == {S_content_type, S_content_length}
protectedHeadersOutbound == {S_x_powered_by, S_x_app_route}

\* The parameter keys the code spells out.
K_SCRIPT_FILENAME == <<"S", "C", "R", "I", "P", "T", "_", "F", "I", "L", "E", "N", "A", "M", "E">>
K_SERVER_SOFTWARE == <<"S", "E", "R", "V", "E", "R", "_", "S", "O", "F", "T", "W", "A", "R", "E">>
K_SERVER_NAME     == <<"S", "E", "R", "V", "E", "R", "_", "N", "A", "M", "E">>
K_SERVER_PORT     == <<"S", "E", "R", "V", "E", "R", "_", "P", "O", "R", "T">>
K_REQUEST_URI     == <<"R", "E", "Q", "U", "E", "S", "T", "_", "U", "R", "I">>
K_QUERY_STRING    == <<"Q", "U", "E", "R", "Y", "_", "S", "T", "R", "I", "N", "G">>
K_REQUEST_METHOD  == <<"R", "E", "Q", "U", "E", "S", "T", "_", "M", "E", "T", "H", "O", "D">>
K_CONTENT_TYPE    == <<"C", "O", "N", "T", "E", "N", "T", "_", "T", "Y", "P", "E">>
K_CONTENT_LENGTH  == <<"C", "O", "N", "T", "E", "N", "T", "_", "L", "E", "N", "G", "T", "H">>
K_NoPrefix        == <<>>
K_HTTP_           == <<"H", "T", "T", "P", "_">>

(***************************************************************************)
(* Maps.  A Go map is a function on the finite set of its keys; an         *)
(* http.Header maps each key to the sequence of its values.                *)
(***************************************************************************)
EmptyMap == <<>>
MapPut(m, k, v) == [x \in (DOMAIN m) \cup {k} |-> IF x = k THEN v ELSE m[x]]

\* http.Header.Add / textproto.MIMEHeader.Add: canonical key, value appended.
HeaderAdd(h, name, value) ==
    LET k == CanonicalMIMEHeaderKey(name)
    IN  MapPut(h, k, IF k \in DOMAIN h THEN Append(h[k], value) ELSE <<value>>)

\* http.Header.Get: the first value under the canonical key, or "".
HeaderGet(h, name) ==
    LET k == CanonicalMIMEHeaderKey(name)
    IN  IF k \in DOMAIN h /\ Len(h[k]) > 0 THEN h[k][1] ELSE ""

\* http.Header.Get of a header whose value the code takes apart: such a
\* value is a sequence of characters, <<>> being the empty string.
HeaderGetText(h, name) ==
    LET k == CanonicalMIMEHeaderKey(name)
    IN  IF k \in DOMAIN h /\ Len(h[k]) > 0 THEN h[k][1] ELSE <<>>

\* The header block of a message as it is on the wire, a sequence of
\* <<name, value>> lines, read into an http.Header.
RECURSIVE ReadMIMEHeader(_)
ReadMIMEHeader(lines) ==
    IF lines = <<>> THEN EmptyMap
    ELSE LET n    == Len(lines)
             rest == ReadMIMEHeader(SubSeq(lines, 1, n - 1))
         IN  HeaderAdd(rest, lines[n][1], lines[n][2])

\* The orders in which `range` may visit the keys of a map.
KeyOrders(m) ==
    LET K == DOMAIN m
    IN  {o \in [1..Cardinality(K) -> K] : \A i, j \in DOMAIN o : i # j => o[i] # o[j]}

(***************************************************************************)
(* Configuration, as the flags' defaults and the tests set it.             *)
(***************************************************************************)
ConfigIndexFile == "/var/www/index.php"
ConfigPort      == 8080

Digits == <<"0", "1", "2", "3", "4", "5", "6", "7", "8", "9">>

\* fmt.Sprintf("%d", n), strconv.Itoa(n) for n >= 0
RECURSIVE Itoa(_)
Itoa(n) == IF n < 10 THEN Digits[n + 1] ELSE Itoa(n \div 10) \o Digits[(n % 10) + 1]

\* strings.Split(s, sep) for a one-character separator: the parts of s
\* between the separators, empty parts included.
RECURSIVE Split(_, _)
Split(s, sep) ==
    IF \A i \in DOMAIN s : s[i] # sep THEN <<s>>
    ELSE LET at == CHOOSE i \in DOMAIN s : s[i] = sep /\ \A j \in 1..(i - 1) : s[j] # sep
         IN  <<SubSeq(s, 1, at - 1)>> \o Split(SubSeq(s, at + 1, Len(s)), sep)

IsDigit(c)    == \E i \in DOMAIN Digits : Digits[i] = c
DigitValue(c) == (CHOOSE i \in DOMAIN Digits : Digits[i] = c) - 1

RECURSIVE ParseDigits(_)
ParseDigits(s) ==
    IF s = <<>> THEN 0
    ELSE ParseDigits(SubSeq(s, 1, Len(s) - 1)) * 10 + DigitValue(s[Len(s)])

\* strconv.Atoi: an optional sign and decimal digits, at least one.
Atoi(s) ==
    LET signed == s # <<>> /\ s[1] \in {"+", "-"}
        digits == IF signed THEN Tail(s) ELSE s
    IN  IF digits = <<>> \/ \E i \in DOMAIN digits : ~IsDigit(digits[i])
        THEN [ok |-> FALSE, value |-> 0]
        ELSE [ok |-> TRUE,
              value |-> IF signed /\ s[1] = "-" THEN 0 - ParseDigits(digits)
                        ELSE ParseDigits(digits)]

(***************************************************************************)
(* The URL of a request.  It is [Path, Pairs]: the path and the query as   *)
(* the sequence of <<key, value>> pairs the request line spells, which is  *)
(* what url.ParseQuery makes of the raw query.  The keys and values drawn  *)
(* are letters and digits, which escaping leaves as they are; keys are     *)
(* single lower-case letters, ordered as in LowerChars.                    *)
(***************************************************************************)
\* "k=v" joined by "&", in the order given.
RECURSIVE JoinQuery(_)
JoinQuery(pairs) ==
    IF pairs = <<>> THEN ""
    ELSE LET rest == JoinQuery(Tail(pairs))
         IN  Head(pairs)[1] \o "=" \o Head(pairs)[2]
                 \o (IF rest = "" THEN "" ELSE "&" \o rest)

\* url.URL.RawQuery
RawQuery(url) == JoinQuery(url.Pairs)

\* A URL whose RequestURI leaves the query out.
RequestURIPathOnly(url) == IF url.Path = "" THEN "/" ELSE url.Path

\* url.URL.RequestURI(): the path, "/" when empty, and "?" with the raw
\* query when there is one.
RequestURI(url) ==
    (IF url.Path = "" THEN "/" ELSE url.Path)
        \o (IF RawQuery(url) # "" THEN "?" \o RawQuery(url) ELSE "")

KeyRank(k) == CHOOSE i \in DOMAIN LowerChars : LowerChars[i] = k

\* The pairs with the keys in ascending order, the values of one key in
\* the order they were given (sort.Strings on the keys of url.Values).
RECURSIVE SortByKey(_)
SortByKey(pairs) ==
    IF pairs = <<>> THEN <<>>
    ELSE LET least == CHOOSE i \in DOMAIN pairs :
                          \A j \in DOMAIN pairs :
                              \/ KeyRank(pairs[i][1]) < KeyRank(pairs[j][1])
                              \/ KeyRank(pairs[i][1]) = KeyRank(pairs[j][1]) /\ i <= j
             others == [j \in 1..(Len(pairs) - 1) |->
                           IF j < least THEN pairs[j] ELSE pairs[j + 1]]
         IN  <<pairs[least]>> \o SortByKey(others)

\* url.URL.Query().Encode()
QueryEncode(url) == JoinQuery(SortByKey(url.Pairs))

(***************************************************************************)
(* FpmClient.Call, the parameter table.                                    *)
(* An inbound request is [Method, Host, RequestURI, Query, Header, Body]:  *)
(* Header is the http.Header the server built, RequestURI and Query are    *)
(* request.URL.RequestURI() and request.URL.Query().Encode().              *)
(***************************************************************************)
BaseParams(request) ==
    LET p1 == MapPut(EmptyMap, K_SCRIPT_FILENAME, ConfigIndexFile)
        p2 == MapPut(p1, K_SERVER_SOFTWARE, "gophpfpm/1.0.0")
        p3 == MapPut(p2, K_SERVER_NAME, request.Host)
        p4 == MapPut(p3, K_SERVER_PORT, Itoa(ConfigPort))
        p5 == MapPut(p4, K_REQUEST_URI, request.RequestURI)
        p6 == MapPut(p5, K_QUERY_STRING, request.Query)
        p7 == MapPut(p6, K_REQUEST_METHOD, request.Method)
    IN  MapPut(p7, K_CONTENT_TYPE, HeaderGet(request.Header, H_Content_type))

\* A filter that compares the name as it is spelled in the map.
InboundProtectedExact(name) == name \in protectedHeadersInbound

\* Whether Call leaves the header `name` out of the HTTP_* parameters.
InboundProtected(name) == ToLower(name) \in protectedHeadersInbound

\* The inner loop of Call: one header name, its values in order.
RECURSIVE PropagateValues(_, _, _)
PropagateValues(params, name, values) ==
    IF values = <<>> THEN params
    ELSE LET next == IF InboundProtected(name)
                     THEN params
                     ELSE MapPut(params, K_HTTP_ \o ToUpper(name), Head(values))
         IN  PropagateValues(next, name, Tail(values))

\* The outer loop of Call: the header names in the order `range` visits them.
RECURSIVE PropagateHeaders(_, _, _)
PropagateHeaders(params, header, order) ==
    IF order = <<>> THEN params
    ELSE PropagateHeaders(PropagateValues(params, Head(order), header[Head(order)]),
                          header, Tail(order))

CallParams(request, order) == PropagateHeaders(BaseParams(request), request.Header, order)

(***************************************************************************)
(* The FCgiRequest.  A body is its length in bytes; a part of it is the    *)
(* pair <<i, end>> of the slice Body[i:end].                               *)
(***************************************************************************)
\* FCgiClient.NewRequest, with the request id generateRequestId drew.
NewRequest(params, body, id) == [Params |-> params, Body |-> body, requestId |-> id]

\* Call, from NewRequest to SendRequest: the body is attached when it is
\* not empty.
CallRequest(params, requestBody, id) ==
    IF requestBody > 0
    THEN [NewRequest(params, 0, id) EXCEPT !.Body = requestBody]
    ELSE NewRequest(params, 0, id)

\* A sendParams that announces the length of every body, empty or not.
sendParamsLengthAlways(r) == MapPut(r.Params, K_CONTENT_LENGTH, Itoa(r.Body))

\* sendParams, its first statement: r.Params after it.  The map is shared
\* with the caller, so the retry finds the key already there.
sendParamsLength(r) ==
    IF r.Body > 0 THEN MapPut(r.Params, K_CONTENT_LENGTH, Itoa(r.Body)) ELSE r.Params

(***************************************************************************)
(* FastCGI records.  writeRecord puts on the socket the eight bytes of the *)
(* header, the content and the padding.  A content is [len, of]: its       *)
(* length in bytes and what it holds.                                      *)
(***************************************************************************)
FCGI_VERSION         == 1
FCGI_FLAG_KEEP_ALIVE == 1
FCGI_RESPONDER       == 1
FCGI_BEGIN_REQUEST   == 1
FCGI_END_REQUEST     == 3
FCGI_PARAMS          == 4
FCGI_STDIN           == 5
FCGI_STDOUT          == 6
FCGI_STDERR          == 7

Uint16(n) == n % 65536

\* A padding to a multiple of four.
PaddingOfFour(contentLength) == (4 - (contentLength % 4)) % 4

\* byte(-contentLength & 7)
Padding(contentLength) == (8 - (contentLength % 8)) % 8

writeRecord(requestId, recordType, contentData) ==
    [header |-> [Version       |-> FCGI_VERSION,
                 Type          |-> recordType,
                 RequestId     |-> requestId,
                 ContentLength |-> Uint16(contentData.len),
                 PaddingLength |-> Padding(contentData.len),
                 Reserved      |-> 0],
     data   |-> contentData,
     pad    |-> [i \in 1..Padding(contentData.len) |-> 0]]

NoContent == [len |-> 0, of |-> <<>>]

\* sendHeader: the BEGIN_REQUEST record, eight bytes of role and flags.
BeginRequest(r) ==
    writeRecord(r.requestId, FCGI_BEGIN_REQUEST,
                [len |-> 8, of |-> <<FCGI_RESPONDER, FCGI_FLAG_KEEP_ALIVE>>])

\* The four bytes of a length without the flag of the four-byte form.
Len32Plain(n) == <<(n \div 16777216) % 256, (n \div 65536) % 256, (n \div 256) % 256, n % 256>>

\* binary.BigEndian.PutUint32(b, uint32(n)|1<<31); b[:4]
Len32(n) ==
    <<128 + ((n \div 16777216) % 128), (n \div 65536) % 256, (n \div 256) % 256, n % 256>>

\* sendParams, the body of its loop: the record of one parameter, the two
\* four-byte lengths, the name and the value.
ParamRecord(r, name) ==
    writeRecord(r.requestId, FCGI_PARAMS,
                [len |-> Len(Len32(Len(name))) + Len(Len32(Len(r.Params[name])))
                            + Len(name) + Len(r.Params[name]),
                 of  |-> <<Len32(Len(name)), Len32(Len(r.Params[name])), name, r.Params[name]>>])

\* sendParams, its last statement.
ParamsEnd(r) == writeRecord(r.requestId, FCGI_PARAMS, NoContent)

chunkSize == 65535

\* A sendBody that sends what is left of the body in one record.
ChunkEndWhole(i, length) == length

\* sendBody: where the chunk that starts at i ends.
ChunkEnd(i, length) == IF i + chunkSize > length THEN length ELSE i + chunkSize

\* sendBody, the body of its loop: the record of Body[i:end].
StdinRecord(r, i) ==
    writeRecord(r.requestId, FCGI_STDIN,
                [len |-> ChunkEnd(i, r.Body) - i, of |-> <<i, ChunkEnd(i, r.Body)>>])

\* sendBody, its last statement.
StdinEnd(r) == writeRecord(r.requestId, FCGI_STDIN, NoContent)

(***************************************************************************)
(* The header of a record on the socket: binary.Write and binary.Read with *)
(* binary.BigEndian put and take the fields of FCgiRecord in their order,  *)
(* the two uint16 with the high byte first.                                *)
(***************************************************************************)
EncodeHeader(h) ==
    <<h.Version, h.Type, h.RequestId \div 256, h.RequestId % 256,
      h.ContentLength \div 256, h.ContentLength % 256, h.PaddingLength, h.Reserved>>

\* A decoding with the low byte first.
DecodeHeaderLittleEndian(b) ==
    [Version       |-> b[1],
     Type          |-> b[2],
     RequestId     |-> b[4] * 256 + b[3],
     ContentLength |-> b[6] * 256 + b[5],
     PaddingLength |-> b[7],
     Reserved      |-> b[8]]

DecodeHeader(b) ==
    [Version       |-> b[1],
     Type          |-> b[2],
     RequestId     |-> b[3] * 256 + b[4],
     ContentLength |-> b[5] * 256 + b[6],
     PaddingLength |-> b[7],
     Reserved      |-> b[8]]

(***************************************************************************)
(* Bytes on the socket.  A piece of the stream is a sequence of runs       *)
(* [v, n], n > 0 bytes of the value v, no two neighbours with the same v,  *)
(* so that a payload of 65535 bytes is three numbers and two pieces are    *)
(* equal exactly if they hold the same bytes.                              *)
(***************************************************************************)
PutRun(s, v, n) ==
    IF n = 0 THEN s
    ELSE IF s # <<>> /\ s[Len(s)].v = v
         THEN [s EXCEPT ![Len(s)].n = @ + n]
         ELSE Append(s, [v |-> v, n |-> n])

\* append(a, b...): the runs of a, then those of b, the last run of a and
\* the first of b being one run when they are of the same byte.
Concat(a, b) ==
    IF b = <<>> THEN a ELSE PutRun(a, b[1].v, b[1].n) \o Tail(b)

\* len(s): the lengths of the runs, summed.
Size(s) == BagCardinality([i \in DOMAIN s |-> s[i].n])

\* b[:k]
RECURSIVE TakeBytes(_, _)
TakeBytes(s, k) ==
    IF k = 0 \/ s = <<>> THEN <<>>
    ELSE IF s[1].n <= k THEN <<s[1]>> \o TakeBytes(Tail(s), k - s[1].n)
         ELSE << [v |-> s[1].v, n |-> k] >>

\* b[k:]
RECURSIVE DropBytes(_, _)
DropBytes(s, k) ==
    IF k = 0 \/ s = <<>> THEN s
    ELSE IF s[1].n <= k THEN DropBytes(Tail(s), k - s[1].n)
         ELSE << [v |-> s[1].v, n |-> s[1].n - k] >> \o Tail(s)

\* The runs of a tuple of bytes, and the tuple of the bytes of runs.
Runs(b) ==
    LET starts == {i \in DOMAIN b : i = 1 \/ b[i] # b[i - 1]}
        start(k) == CHOOSE i \in starts : Cardinality({j \in starts : j < i}) = k - 1
        end(k) == IF k = Cardinality(starts) THEN Len(b) + 1 ELSE start(k + 1)
    IN  [k \in 1..Cardinality(starts) |-> [v |-> b[start(k)], n |-> end(k) - start(k)]]

RECURSIVE Explicit(_)
Explicit(s) ==
    IF s = <<>> THEN <<>>
    ELSE [i \in 1..s[1].n |-> s[1].v] \o Explicit(Tail(s))

\* io.ReadFull of k bytes: the bytes and the rest of the stream, or, the
\* stream ending before, a failure.
ReadFull(stream, k) ==
    IF Size(stream) < k THEN [ok |-> FALSE, data |-> <<>>, rest |-> <<>>]
    ELSE [ok |-> TRUE, data |-> TakeBytes(stream, k), rest |-> DropBytes(stream, k)]

(***************************************************************************)
(* readResponse, the loop that reads the records.  One round reads the     *)
(* eight bytes of a header; when the request id is not the one of the      *)
(* request the round is over; otherwise it reads                           *)
(* ContentLength + uint16(PaddingLength) bytes, a sum of two uint16, and   *)
(* appends b[:ContentLength] to stdout for a STDOUT record (a slice beyond *)
(* len(b) panics); an END_REQUEST record ends the loop.                    *)
(***************************************************************************)
\* A round that keeps the padding with the content.
StdoutWithPadding(b, h) == b

\* b[:respHeader.ContentLength]
StdoutContent(b, h) == TakeBytes(b, h.ContentLength)

\* One round for the request id, from the position o = [rest, stdout, pos,
\* state, last]; last tells where the round began, the header it read and
\* how many bytes it read after the header.
ReadRound(id, o) ==
    LET hd == ReadFull(o.rest, 8)
        h  == DecodeHeader(Explicit(hd.data))
        n  == Uint16(h.ContentLength + h.PaddingLength)
        bd == ReadFull(hd.rest, n)
    IN  IF ~hd.ok
        THEN [o EXCEPT !.state = "could not read record header", !.rest = <<>>, !.last = <<>>]
        ELSE IF id # h.RequestId
        THEN [o EXCEPT !.rest = hd.rest, !.pos = @ + 8,
                       !.last = << [at |-> o.pos, header |-> h, took |-> 0] >>]
        ELSE IF ~bd.ok
        THEN [o EXCEPT !.state = "could not read record body", !.rest = <<>>, !.last = <<>>]
        ELSE IF h.Type = FCGI_STDOUT /\ h.ContentLength > n
        THEN [o EXCEPT !.state = "panic", !.rest = bd.rest, !.pos = @ + 8 + n,
                       !.last = << [at |-> o.pos, header |-> h, took |-> n] >>]
        ELSE [rest   |-> bd.rest,
              stdout |-> IF h.Type = FCGI_STDOUT
                         THEN Concat(o.stdout, StdoutContent(bd.data, h))
                         ELSE o.stdout,
              pos    |-> o.pos + 8 + n,
              state  |-> IF h.Type = FCGI_END_REQUEST THEN "done" ELSE "reading",
              last   |-> << [at |-> o.pos, header |-> h, took |-> n] >>]

(***************************************************************************)
(* The reply of FPM.  On the wire it is [lines, status, body, truncated]:  *)
(* the header lines of stdout other than Status, the value of the Status   *)
(* line (<<v>>, or <<>> when stdout has none), the body, and whether the   *)
(* body is shorter than the reply announces (reading it then fails).       *)
(***************************************************************************)
Nil == "nil"      \* a nil error

\* The header block of stdout.
ReplyLines(reply) ==
    reply.lines \o (IF reply.status = <<>> THEN <<>> ELSE << <<H_Status, reply.status[1]>> >>)

\* The status line readResponse puts before stdout.
StatusLine200 == <<"2", "0", "0", " ", "O", "K">>

\* readResponse, "parse status": the status a non-empty Status header
\* gives, or the error.
StatusOverride(status) ==
    LET s    == Split(status, " ")
        code == Atoi(s[1])
    IN  IF Len(s) < 2 \/ ~code.ok THEN [err |-> "could not parse status code"]
        ELSE [err |-> Nil, StatusCode |-> code.value, Status |-> status]

\* readResponse, from the parse of stdout on: [err] when it fails, else
\* the http.Response with a nil err.
readResponse(reply) ==
    LET header   == ReadMIMEHeader(ReplyLines(reply))
        status   == HeaderGetText(header, H_Status)
        override == IF status # <<>> THEN StatusOverride(status)
                    ELSE [err |-> Nil, StatusCode |-> 200, Status |-> StatusLine200]
    IN  IF override.err # Nil THEN [err |-> override.err]
        ELSE [err        |-> Nil,
              StatusCode |-> override.StatusCode,
              Status     |-> override.Status,
              Header     |-> header,
              Body       |-> reply.body,
              truncated  |-> reply.truncated]

\* A ResponseData without the route.
ResponseDataNoRoute(fpmResp) ==
    [Status  |-> fpmResp.StatusCode,
     Headers |-> fpmResp.Header,
     Body    |-> fpmResp.Body,
     Route   |-> ""]

\* Call, after a successful SendRequest: the ResponseData it returns.
ResponseDataOf(fpmResp) ==
    [Status  |-> fpmResp.StatusCode,
     Headers |-> fpmResp.Header,
     Body    |-> fpmResp.Body,
     Route   |-> HeaderGet(fpmResp.Header, H_X_App_Route)]

(***************************************************************************)
(* The default route handler: what it writes.                              *)
(***************************************************************************)
\* A filter that compares the name as it is spelled in the map.
OutboundProtectedExact(name) == name \in protectedHeadersOutbound

\* Whether the handler leaves the header `name` out of the response.
OutboundProtected(name) == ToLower(name) \in protectedHeadersOutbound

\* The inner loop of the header copy: one name, its values in order.
RECURSIVE CopyValues(_, _, _)
CopyValues(w, name, values) ==
    IF values = <<>> THEN w
    ELSE LET next == IF OutboundProtected(name) THEN w ELSE HeaderAdd(w, name, Head(values))
         IN  CopyValues(next, name, Tail(values))

\* The outer loop: the names in the order `range` visits them.
RECURSIVE CopyHeaders(_, _, _)
CopyHeaders(w, headers, order) ==
    IF order = <<>> THEN w
    ELSE CopyHeaders(CopyValues(w, Head(order), headers[Head(order)]), headers, Tail(order))

NoBody == "<nothing written>"

\* writer.WriteHeader(fpmResponse.Status), writer.Write(fpmResponse.Body)
\* after the header copy; `wrote` is whether the Write succeeded.
WriteResponse(data, order, wrote) ==
    [code    |-> data.Status,
     headers |-> CopyHeaders(EmptyMap, data.Headers, order),
     body    |-> IF wrote THEN data.Body ELSE NoBody]

\* A WriteError whose observation carries an endpoint label.
WriteErrorObsLabelled == [type |-> "http", code |-> Itoa(500), endpoint |-> "/"]

\* HttpServer.WriteError: what it writes, logs and observes.
WriteErrorResponse == [code |-> 500, headers |-> EmptyMap, body |-> "Internal server error"]
WriteErrorLog      == [level |-> "error", msg |-> "server error"]
WriteErrorObs      == [type |-> "http", code |-> Itoa(500), endpoint |-> ""]

\* A WriteTimeout that answers 504 Gateway Timeout.
WriteTimeoutResponse504 == [code |-> 504, headers |-> EmptyMap, body |-> "timeout"]

\* HttpServer.WriteTimeout: what it writes, logs and observes.
WriteTimeoutResponse == [code |-> 408, headers |-> EmptyMap, body |-> "timeout"]
WriteTimeoutLog      == [level |-> "info", msg |-> "request timeout"]
WriteTimeoutObs      == [type |-> "http", code |-> Itoa(408), endpoint |-> ""]

\* An observation of the HTTP leg without the route.
SuccessObsUnrouted(data) == [type |-> "http", code |-> Itoa(data.Status), endpoint |-> ""]

\* The observation of the HTTP leg after a response of FPM was written.
SuccessObs(data) == [type |-> "http", code |-> Itoa(data.Status), endpoint |-> data.Route]

\* The observations of the FPM leg, made inside Call.
FpmFailureObs       == [type |-> "fpm", code |-> Itoa(0), endpoint |-> ""]
FpmSuccessObs(resp) == [type |-> "fpm", code |-> Itoa(resp.StatusCode),
                        endpoint |-> HeaderGet(resp.Header, H_X_App_Route)]

(***************************************************************************)
(* The state after construction: NewFCgiClient dialled every slot and put  *)
(* it into the channel, no request has arrived.                            *)
(***************************************************************************)
NilData == <<>>       \* a nil *ResponseData; <<d>> points to d
NoValue == <<>>       \* no argument, no result; <<v>> holds v

NewFCgiClient == [i \in 1..FpmPoolSize |-> i - 1]

NoEvents == [acq |-> 0, rel |-> 0, doReq |-> 0, reconn |-> 0]

ServerInit ==
    /\ Pool = NewFCgiClient
    /\ Conn = [c \in Slots |-> TRUE]
    /\ phase = "running"
    /\ nClosed = 0
    /\ hpc = [r \in Requests |-> "idle"]
    /\ wpc = [r \in Requests |-> "none"]
    /\ conn = [r \in Requests |-> NoConn]
    /\ fpmResponse = [r \in Requests |-> NilData]
    /\ fpmErr = [r \in Requests |-> Nil]
    /\ writer = [r \in Requests |-> <<>>]
    /\ hlog = [r \in Requests |-> <<>>]
    /\ httpObs = [r \in Requests |-> <<>>]
    /\ fpmObs = [r \in Requests |-> <<>>]
    /\ events = [r \in Requests |-> NoEvents]

Init == ServerInit /\ arg = NoValue /\ out = NoValue

\* The process runs: main has not returned after Close.
Alive == phase \in {"running", "draining", "closing"}

(***************************************************************************)
(* The replies FPM gives in the specification of the server: a complete    *)
(* one, with a protected header, another and a Status, and a truncated     *)
(* one.                                                                    *)
(***************************************************************************)
ServerReplyLines ==
    << << <<"X", "-", "A", "P", "P", "-", "R", "O", "U", "T", "E">>, "/api/create" >>,
       << <<"C", "o", "n", "t", "e", "n", "t", "-", "T", "y", "p", "e">>, "text/html" >> >>

ServerReplies ==
    {[lines |-> ServerReplyLines, status |-> <<<<"2", "0", "1", " ", "C", "r", "e", "a", "t", "e", "d">>>>,
      body |-> "Created", truncated |-> t] : t \in BOOLEAN}

\* What doRequest returns for them.
ServerResponses == {readResponse(reply) : reply \in ServerReplies}

(***************************************************************************)
(* The default route handler, first half: it notes the start time, makes   *)
(* the two contexts, starts the goroutine that runs fpmClient.Call and     *)
(* waits in the select.  Requests are numbered in the order they arrive.   *)
(***************************************************************************)
ServeHTTP(r) ==
    /\ phase = "running"
    /\ hpc[r] = "idle"
    /\ \A q \in Requests : q < r => hpc[q] # "idle"
    /\ hpc' = [hpc EXCEPT ![r] = "select"]
    /\ wpc' = [wpc EXCEPT ![r] = "call"]
    /\ UNCHANGED <<poolVars, serverVars, pureVars>>
    /\ UNCHANGED <<conn, fpmResponse, fpmErr, fpmObs, events, writer, hlog, httpObs>>

(***************************************************************************)
(* The goroutine of the handler: Call returned (data, err); it assigns     *)
(* fpmResponse and fpmErr and calls cancel(), which closes worker.Done().  *)
(***************************************************************************)
CallReturns(r, data, err) ==
    /\ fpmResponse' = [fpmResponse EXCEPT ![r] = data]
    /\ fpmErr' = [fpmErr EXCEPT ![r] = err]
    /\ wpc' = [wpc EXCEPT ![r] = "finished"]

\* Call, from its entry to SendRequest: io.ReadAll(request.Body) fails and
\* Call returns the error, or the parameters and the request are built and
\* SendRequest is entered.
Call(r) ==
    /\ Alive
    /\ wpc[r] = "call"
    /\ \/ /\ wpc' = [wpc EXCEPT ![r] = "acquire"]
          /\ UNCHANGED <<fpmResponse, fpmErr>>
       \/ CallReturns(r, NilData, "could not read request body")
    /\ UNCHANGED <<poolVars, serverVars, handlerVars, pureVars, conn, fpmObs, events>>

(***************************************************************************)
(* FCgiClient.findConnection, as SendRequest calls it: receive a slot from *)
(* the channel.  While the channel is empty the loop only logs, once a     *)
(* second, that all connections are busy, and waits on.                    *)
(***************************************************************************)
\* Receive, leaving the received slot in the channel.
ReceivePeek(pool) ==
    IF pool = <<>> THEN <<>> ELSE << [conn |-> Head(pool), pool |-> pool] >>

\* Receive, returning slot 0 when the timer fires on an empty channel.
ReceiveOnTick(pool) ==
    IF pool = <<>> THEN << [conn |-> 0, pool |-> pool] >>
    ELSE << [conn |-> Head(pool), pool |-> Tail(pool)] >>

\* One round of the select: <<>> when the channel is empty (the timer case:
\* log, and loop), else the slot received and the channel without it.
Receive(pool) ==
    IF pool = <<>> THEN <<>> ELSE << [conn |-> Head(pool), pool |-> Tail(pool)] >>

findConnection(r) ==
    /\ Alive
    /\ wpc[r] = "acquire"
    /\ Receive(Pool) # <<>>
    /\ conn' = [conn EXCEPT ![r] = Receive(Pool)[1].conn]
    /\ Pool' = Receive(Pool)[1].pool
    /\ events' = [events EXCEPT ![r].acq = @ + 1]
    /\ wpc' = [wpc EXCEPT ![r] = "doRequest"]
    /\ UNCHANGED <<Conn, serverVars, handlerVars, pureVars, fpmResponse, fpmErr, fpmObs>>

(***************************************************************************)
(* SendRequest returns: the deferred function sends conn back to the       *)
(* channel, Call observes the FPM leg and, on success, reads the body of   *)
(* the response, and the goroutine publishes the result.                   *)
(***************************************************************************)
\* SendRequest without the deferred function.
DeferredNone(c) == <<>>

\* What the deferred function of SendRequest sends to the channel.
Deferred(c) == <<c>>

\* Call, after SendRequest returned (resp, err): the observation of the FPM
\* leg it makes and the (data, err) it returns.
CallAfterSend(resp, err) ==
    IF err # Nil
    THEN [obs |-> FpmFailureObs, data |-> NilData, err |-> err]
    ELSE IF resp.truncated
         THEN [obs |-> FpmSuccessObs(resp), data |-> NilData,
               err |-> "could not read response body"]
         ELSE [obs |-> FpmSuccessObs(resp), data |-> <<ResponseDataOf(resp)>>, err |-> Nil]

\* CallAfterSend for the responses of this specification, tabulated.
ServerCallResults == [resp \in ServerResponses |-> CallAfterSend(resp, Nil)]

SendRequestReturns(r, result) ==
    /\ Len(Pool) + Len(Deferred(conn[r])) <= FpmPoolSize    \* capacity of the channel
    /\ Pool' = Pool \o Deferred(conn[r])
    /\ conn' = [conn EXCEPT ![r] = NoConn]
    /\ fpmObs' = [fpmObs EXCEPT ![r] = Append(@, result.obs)]
    /\ CallReturns(r, result.data, result.err)

\* A SendRequest that reconnects and retries after every failure.
RetriesAlways(n) == TRUE

\* Whether SendRequest answers the n-th failed doRequest with a reconnect
\* (and a retry) rather than with an error.
RetriesAfter(n) == n = 1

\* conn.doRequest(r), the first call or the retry: the exchange with FPM.
\* It fails (always on a closed socket), or FPM's reply is read and parsed.
doRequest(r) ==
    /\ Alive
    /\ wpc[r] = "doRequest"
    /\ LET n == events[r].doReq + 1
       IN  \/ /\ IF RetriesAfter(n)
                 THEN /\ wpc' = [wpc EXCEPT ![r] = "reconnect"]
                      /\ events' = [events EXCEPT ![r].doReq = n]
                      /\ UNCHANGED <<Pool, conn, fpmResponse, fpmErr, fpmObs>>
                 ELSE /\ events' = [events EXCEPT ![r].doReq = n,
                                                  ![r].rel = @ + Len(Deferred(conn[r]))]
                      /\ SendRequestReturns(r, CallAfterSend(Nil, "could not send the request"))
           \/ /\ Conn[conn[r]]
              /\ \E resp \in ServerResponses :
                    /\ events' = [events EXCEPT ![r].doReq = n,
                                                ![r].rel = @ + Len(Deferred(conn[r]))]
                    /\ SendRequestReturns(r, ServerCallResults[resp])
    /\ UNCHANGED <<Conn, serverVars, handlerVars, pureVars>>

\* A reconnect that leaves the closed socket in the slot.
RedialledNever(c, dialled) == FALSE

\* The socket of a slot after reconnect: the old one is closed, and the
\* slot gets the freshly dialled one if the dial succeeded.
Redialled(c, dialled) ==
    IF dialled THEN TRUE ELSE FALSE

\* conn.reconnect(), after the first doRequest failed.
reconnect(r) ==
    /\ Alive
    /\ wpc[r] = "reconnect"
    /\ \E dialled \in BOOLEAN :
          /\ Conn' = [Conn EXCEPT ![conn[r]] = Redialled(@, dialled)]
          /\ IF dialled
             THEN /\ wpc' = [wpc EXCEPT ![r] = "doRequest"]
                  /\ events' = [events EXCEPT ![r].reconn = @ + 1]
                  /\ UNCHANGED <<Pool, conn, fpmResponse, fpmErr, fpmObs>>
             ELSE /\ events' = [events EXCEPT ![r].reconn = @ + 1,
                                              ![r].rel = @ + Len(Deferred(conn[r]))]
                  /\ SendRequestReturns(r, CallAfterSend(Nil, "could not reconnect"))
    /\ UNCHANGED <<serverVars, handlerVars, pureVars>>

(***************************************************************************)
(* The default route handler, second half: the select.  ctx.Done() is      *)
(* ready once the deadline (config.Timeout) has passed, which may happen   *)
(* at any moment of the wait; worker.Done() is ready once the goroutine    *)
(* called cancel().  When both are ready the select takes either.          *)
(***************************************************************************)
\* case <-ctx.Done(): WriteTimeout and return.
selectTimeout(r) ==
    /\ Alive
    /\ hpc[r] = "select"
    /\ hpc' = [hpc EXCEPT ![r] = "timeout"]
    /\ hlog' = [hlog EXCEPT ![r] = Append(@, WriteTimeoutLog)]
    /\ writer' = [writer EXCEPT ![r] = Append(@, WriteTimeoutResponse)]
    /\ httpObs' = [httpObs EXCEPT ![r] = Append(@, WriteTimeoutObs)]
    /\ UNCHANGED <<poolVars, serverVars, workerVars, pureVars>>

\* The response the handler writes for the result of Call it reads after
\* worker.Done(): the kind of exit, and what is written, logged and observed.
\* writer.WriteHeader panics on a code outside 100..999: the server recovers
\* and closes the connection, nothing having been written.
Respond(data, err, order, wrote) ==
    IF err # Nil \/ data = NilData
    THEN [exit |-> "error", written |-> <<WriteErrorResponse>>,
          logged |-> <<WriteErrorLog>>, observed |-> <<WriteErrorObs>>]
    ELSE IF data[1].Status < 100 \/ data[1].Status > 999
    THEN [exit |-> "panic", written |-> <<>>, logged |-> <<>>, observed |-> <<>>]
    ELSE [exit     |-> "served",
          written  |-> <<WriteResponse(data[1], order, wrote)>>,
          logged   |-> IF wrote THEN <<>>
                       ELSE << [level |-> "error", msg |-> "could not write response body"] >>,
          observed |-> IF wrote THEN <<SuccessObs(data[1])>> ELSE <<>>]

\* The responses the handler may write for a result of Call: the header copy
\* visits the names in any order, the Write of the body succeeds or fails.
Answers(data, err) ==
    IF err # Nil \/ data = NilData
    THEN {Respond(data, err, <<>>, TRUE)}
    ELSE {Respond(data, err, order, wrote) :
             order \in KeyOrders(data[1].Headers), wrote \in BOOLEAN}

\* Answers for the data Call returns in this specification, tabulated.
ServerAnswers ==
    [data \in {ServerCallResults[resp].data : resp \in ServerResponses} \ {NilData}
        |-> Answers(data, Nil)]

AnswersOf(data, err) ==
    IF err = Nil /\ data \in DOMAIN ServerAnswers THEN ServerAnswers[data]
    ELSE Answers(data, err)

\* A select whose second case is always ready.
workerDoneAlways(r) == TRUE

\* worker.Done() is closed: the goroutine has called cancel().
workerDone(r) == wpc[r] = "finished"

\* case <-worker.Done(): answer with the result of Call.
selectWorkerDone(r) ==
    /\ Alive
    /\ hpc[r] = "select"
    /\ workerDone(r)
    /\ \E a \in AnswersOf(fpmResponse[r], fpmErr[r]) :
          /\ hpc' = [hpc EXCEPT ![r] = a.exit]
          /\ writer' = [writer EXCEPT ![r] = @ \o a.written]
          /\ hlog' = [hlog EXCEPT ![r] = @ \o a.logged]
          /\ httpObs' = [httpObs EXCEPT ![r] = @ \o a.observed]
    /\ UNCHANGED <<poolVars, serverVars, workerVars, pureVars>>

(***************************************************************************)
(* HttpServer.StartServer after the termination signal: srv.Shutdown stops *)
(* the listener and waits for the handlers; it returns nil once no handler *)
(* runs.  (When the five seconds pass first it returns an error and Fatalf *)
(* exits the process: the behaviour ends there.)  After a nil,             *)
(* fpmClient.Close() receives FpmPoolSize slots from the channel and       *)
(* closes the socket of each; then main returns.                           *)
(***************************************************************************)
\* A Shutdown that waits for no handler.
HandlersNone == {}

HandlersRunning == {r \in Requests : hpc[r] = "select"}

Shutdown ==
    /\ phase = "running"
    /\ phase' = "draining"
    /\ UNCHANGED <<poolVars, nClosed, workerVars, handlerVars, pureVars>>

ShutdownReturns ==
    /\ phase = "draining"
    /\ HandlersRunning = {}
    /\ phase' = "closing"
    /\ UNCHANGED <<poolVars, nClosed, workerVars, handlerVars, pureVars>>

\* A Close that closes the slots by their number, in the channel or not.
CloseByIndex(pool) ==
    << [conn |-> nClosed, pool |-> SelectSeq(pool, LAMBDA c : c # nClosed)] >>

\* conn := <-client.Pool in Close: <<>> while the channel is empty, else
\* the slot received and the channel without it.
CloseReceive(pool) == Receive(pool)

\* One iteration of the loop of FCgiClient.Close.
Close ==
    /\ phase = "closing"
    /\ CloseReceive(Pool) # <<>>
    /\ Pool' = CloseReceive(Pool)[1].pool
    /\ Conn' = [Conn EXCEPT ![CloseReceive(Pool)[1].conn] = FALSE]
    /\ nClosed' = nClosed + 1
    /\ phase' = IF nClosed + 1 = FpmPoolSize THEN "closed" ELSE "closing"
    /\ UNCHANGED <<workerVars, handlerVars, pureVars>>

Next ==
    \/ \E r \in Requests : ServeHTTP(r)
    \/ \E r \in Requests : Call(r)
    \/ \E r \in Requests : findConnection(r)
    \/ \E r \in Requests : doRequest(r)
    \/ \E r \in Requests : reconnect(r)
    \/ \E r \in Requests : selectTimeout(r)
    \/ \E r \in Requests : selectWorkerDone(r)
    \/ Shutdown
    \/ ShutdownReturns
    \/ Close

Spec == Init /\ [][Next]_vars

(***************************************************************************)
(* The path of the headers of a reply, from the wire to the response, on   *)
(* its own: doRequest reads the reply (http.ReadResponse), Call builds the *)
(* ResponseData, the handler copies the headers and writes.  `arg` is the  *)
(* reply on the wire, `out` the answer.  The names drawn are the protected *)
(* ones and others, in several casings; none of them is a name net/http    *)
(* consumes itself (Transfer-Encoding).                                    *)
(***************************************************************************)
SeqsUpTo(S, n) == UNION {[1..k -> S] : k \in 0..n}

ReplyHeaderNames ==
    {<<"X", "-", "P", "o", "w", "e", "r", "e", "d", "-", "B", "y">>,
     <<"X", "-", "A", "P", "P", "-", "R", "O", "U", "T", "E">>,
     <<"x", "-", "a", "p", "p", "-", "r", "o", "u", "t", "e">>,
     <<"C", "o", "n", "t", "e", "n", "t", "-", "T", "y", "p", "e">>,
     <<"s", "e", "t", "-", "c", "o", "o", "k", "i", "e">>}

HeaderValues == {"a", "b"}

\* The values of the Status line: with a reason, without one, with the
\* code zero, with no number, and empty.
StatusValues ==
    {<<"4", "0", "4", " ", "N", "o", "t", " ", "F", "o", "u", "n", "d">>,
     <<"2", "9", "9">>,
     <<"0", " ", "Z", "e", "r", "o">>,
     <<"a", "b", "c", " ", "d", "e", "f">>,
     <<>>}

\* How a reply goes on after the other header lines: with or without a
\* Status line, with the body whole or cut short.
ReplyEnds ==
    {[status |-> <<>>, truncated |-> t] : t \in BOOLEAN}
        \cup {[status |-> <<v>>, truncated |-> FALSE] : v \in StatusValues}

WireReplies ==
    {[lines |-> l, status |-> e.status, body |-> "Created", truncated |-> e.truncated] :
        l \in SeqsUpTo(ReplyHeaderNames \X HeaderValues, MaxHeaderLines),
        e \in ReplyEnds}

OutboundInit == ServerInit /\ arg \in {<<reply>> : reply \in WireReplies} /\ out = NoValue

\* The handler answers a request for which FPM gave the reply arg[1]: out
\* becomes <<answer, parsed, called>>, the answer of the handler, what
\* readResponse returned and what Call returned.  A reply readResponse
\* rejects is rejected in the retry as well, and SendRequest fails.
ServeReply ==
    /\ arg # NoValue
    /\ out = NoValue
    /\ LET parsed == readResponse(arg[1])
           called == IF parsed.err # Nil
                     THEN CallAfterSend(Nil, "could not send the request")
                     ELSE CallAfterSend(parsed, Nil)
       IN  \E a \in Answers(called.data, called.err) : out' = <<a, parsed, called>>
    /\ UNCHANGED <<poolVars, serverVars, workerVars, handlerVars, arg>>

OutboundNext == ServeReply

OutboundSpec == OutboundInit /\ [][OutboundNext]_vars

(***************************************************************************)
(* The path of the headers of a request, from the wire to the parameters   *)
(* of FPM, on its own: the HTTP server reads them into request.Header,     *)
(* Call builds the parameter map.  `arg` is the request on the wire, `out` *)
(* the map.                                                                *)
(***************************************************************************)
RequestHeaderNames ==
    {<<"C", "o", "n", "t", "e", "n", "t", "-", "T", "y", "p", "e">>,
     <<"c", "o", "n", "t", "e", "n", "t", "-", "t", "y", "p", "e">>,
     <<"C", "O", "N", "T", "E", "N", "T", "-", "L", "E", "N", "G", "T", "H">>,
     <<"X", "-", "C", "u", "s", "t", "o", "m", "-", "H", "e", "a", "d", "e", "r">>,
     <<"x", "-", "c", "u", "s", "t", "o", "m", "-", "h", "e", "a", "d", "e", "r">>,
     <<"s", "c", "r", "i", "p", "t", "_", "f", "i", "l", "e", "n", "a", "m", "e">>}

\* Request lines, Host headers and bodies (a body is its length in bytes).
RequestLines ==
    {[method |-> "GET",  host |-> "example.com",    query |-> <<>>, body |-> 0],
     [method |-> "POST", host |-> "example.com",
      query |-> << <<"b", "2">>, <<"a", "1">> >>,                  body |-> 4],
     [method |-> "GET",  host |-> "localhost:8080",
      query |-> << <<"f", "1">> >>,                                body |-> 0],
     [method |-> "POST", host |-> "localhost:8080", query |-> <<>>, body |-> 4]}

\* A request on the wire: the request line, the Host header, the other
\* header lines, and the body.
WireRequests ==
    {[method |-> q.method, host |-> q.host, path |-> "/api/users", query |-> q.query,
      lines |-> l, body |-> q.body] :
        q \in RequestLines,
        l \in SeqsUpTo(RequestHeaderNames \X HeaderValues, MaxHeaderLines)}

\* The *http.Request the server hands to the handler.  The server takes
\* the Host header out of the header map and into request.Host.
ReadRequest(wire) ==
    LET url == [Path |-> wire.path, Pairs |-> wire.query]
    IN  [Method     |-> wire.method,
         Host       |-> wire.host,
         RequestURI |-> RequestURI(url),
         Query      |-> QueryEncode(url),
         Header     |-> ReadMIMEHeader(wire.lines),
         Body       |-> wire.body]

InboundInit == ServerInit /\ arg \in {<<wire>> : wire \in WireRequests} /\ out = NoValue

\* Call builds the parameters for the request arg[1].
BuildParams ==
    /\ arg # NoValue
    /\ out = NoValue
    /\ LET request == ReadRequest(arg[1])
       IN  \E order \in KeyOrders(request.Header) : out' = <<CallParams(request, order)>>
    /\ UNCHANGED <<poolVars, serverVars, workerVars, handlerVars, arg>>

\* The parameters sendParams sends for that request, in the first
\* doRequest and in the retry: out becomes <<params, first, retry>>.
SendParams ==
    /\ Len(out) = 1
    /\ LET req   == CallRequest(out[1], arg[1].body, 1)
           first == sendParamsLength(req)
           retry == sendParamsLength([req EXCEPT !.Params = first])
       IN  out' = <<out[1], first, retry>>
    /\ UNCHANGED <<poolVars, serverVars, workerVars, handlerVars, arg>>

InboundNext == BuildParams \/ SendParams

InboundSpec == InboundInit /\ [][InboundNext]_vars

(***************************************************************************)
(* SendRequest record by record.  Every request has entered SendRequest;   *)
(* arg[r] is its FCgiRequest with the position of doRequest in it (pc, the *)
(* parameters already sent, the offset in the body), and out[c] is what    *)
(* the doRequest in progress on slot c has put on the socket so far, each  *)
(* entry with the request that wrote it, and a last entry once the         *)
(* response is being read.  A write or the read may fail at any point.     *)
(* FPM, at the other end of an open socket, has received a request once    *)
(* all its records are written.                                            *)
(***************************************************************************)
WireParams == MapPut(EmptyMap, K_REQUEST_METHOD, "GET")

\* The requests of concurrent callers: without and with a body; the request
\* ids of two callers may differ and may collide.
FCgiRequests == {CallRequest(WireParams, 0, 1), CallRequest(WireParams, 65536, 2)}

\* A request at the start of a doRequest; `whole` counts the times this
\* SendRequest has written the request to the socket in full.
AtStart(req) == [req |-> req, pc |-> "header", sent |-> {}, off |-> 0, whole |-> 0]

WireStart ==
    /\ Pool = NewFCgiClient
    /\ Conn = [c \in Slots |-> TRUE]
    /\ phase = "running"
    /\ nClosed = 0
    /\ hpc = [r \in Requests |-> "select"]
    /\ wpc = [r \in Requests |-> "acquire"]
    /\ conn = [r \in Requests |-> NoConn]
    /\ fpmResponse = [r \in Requests |-> NilData]
    /\ fpmErr = [r \in Requests |-> Nil]
    /\ writer = [r \in Requests |-> <<>>]
    /\ hlog = [r \in Requests |-> <<>>]
    /\ httpObs = [r \in Requests |-> <<>>]
    /\ fpmObs = [r \in Requests |-> <<>>]
    /\ events = [r \in Requests |-> NoEvents]
    /\ out = [c \in Slots |-> <<>>]

\* The callers send the same request (their ids collide), or the one and
\* the other in turn.
WireInit ==
    /\ WireStart
    /\ \E first \in FCgiRequests, second \in FCgiRequests :
          /\ first = second \/ first.Body < second.Body
          /\ arg = [r \in Requests |-> AtStart(IF r % 2 = 1 THEN first ELSE second)]

Written(r, record) == [by |-> r, kind |-> "write", rec |-> record]
Reading(r)         == [by |-> r, kind |-> "read", rec |-> <<>>]

\* c.sendHeader(r): the first record of a doRequest.
sendHeader(r) ==
    /\ wpc[r] = "doRequest"
    /\ arg[r].pc = "header"
    /\ out' = [out EXCEPT ![conn[r]] = Append(@, Written(r, BeginRequest(arg[r].req)))]
    /\ arg' = [arg EXCEPT ![r].pc = "params"]
    /\ UNCHANGED <<poolVars, serverVars, workerVars, handlerVars>>

\* c.sendParams(r): CONTENT_LENGTH is put into r.Params, then one record
\* for each parameter, in the order `range` gives, then the empty record.
sendParams(r) ==
    /\ wpc[r] = "doRequest"
    /\ arg[r].pc = "params"
    /\ LET params == sendParamsLength(arg[r].req)
           req    == [arg[r].req EXCEPT !.Params = params]
           left   == DOMAIN params \ arg[r].sent
       IN  IF left # {}
           THEN \E name \in left :
                   /\ out' = [out EXCEPT ![conn[r]] = Append(@, Written(r, ParamRecord(req, name)))]
                   /\ arg' = [arg EXCEPT ![r].req = req, ![r].sent = @ \cup {name}]
           ELSE /\ out' = [out EXCEPT ![conn[r]] = Append(@, Written(r, ParamsEnd(req)))]
                /\ arg' = [arg EXCEPT ![r].req = req, ![r].pc = "body"]
    /\ UNCHANGED <<poolVars, serverVars, workerVars, handlerVars>>

\* c.sendBody(r): one record for each chunk of the body, then the empty
\* record.
sendBody(r) ==
    /\ wpc[r] = "doRequest"
    /\ arg[r].pc = "body"
    /\ LET req == arg[r].req
           i   == arg[r].off
       IN  IF i < req.Body
           THEN /\ out' = [out EXCEPT ![conn[r]] = Append(@, Written(r, StdinRecord(req, i)))]
                /\ arg' = [arg EXCEPT ![r].off = i + chunkSize]
           ELSE /\ out' = [out EXCEPT ![conn[r]] = Append(@, Written(r, StdinEnd(req)))]
                /\ arg' = [arg EXCEPT ![r].pc = "read", ![r].whole = @ + (IF Conn[conn[r]] THEN 1 ELSE 0)]
    /\ UNCHANGED <<poolVars, serverVars, workerVars, handlerVars>>

\* c.readResponse(r) begins: the records are read from the socket.
awaitResponse(r) ==
    /\ wpc[r] = "doRequest"
    /\ arg[r].pc = "read"
    /\ out' = [out EXCEPT ![conn[r]] = Append(@, Reading(r))]
    /\ arg' = [arg EXCEPT ![r].pc = "reading"]
    /\ UNCHANGED <<poolVars, serverVars, workerVars, handlerVars>>

\* A doRequest that leaves its exchange on the socket when it returns.
DrainedNot(log) == log

\* What is left of an exchange on the socket when doRequest returns:
\* readResponse has read every record up to and with END_REQUEST, or a
\* write or a read failed and the socket gives no more.
Drained(log) == <<>>

\* doRequest returns: with an error from any of its steps, or, the
\* response being read, with the response.  SendRequest goes on as it does
\* in doRequest(r) above; a later doRequest starts from sendHeader.
doRequestReturns(r) ==
    /\ wpc[r] = "doRequest"
    /\ LET n == events[r].doReq + 1
       IN  \/ /\ IF RetriesAfter(n)
                 THEN /\ wpc' = [wpc EXCEPT ![r] = "reconnect"]
                      /\ events' = [events EXCEPT ![r].doReq = n]
                      /\ UNCHANGED <<Pool, conn, fpmResponse, fpmErr, fpmObs>>
                 ELSE /\ events' = [events EXCEPT ![r].doReq = n,
                                                  ![r].rel = @ + Len(Deferred(conn[r]))]
                      /\ SendRequestReturns(r, CallAfterSend(Nil, "could not send the request"))
           \/ /\ arg[r].pc = "reading"
              /\ Conn[conn[r]]
              /\ \E resp \in ServerResponses :
                    /\ events' = [events EXCEPT ![r].doReq = n,
                                                ![r].rel = @ + Len(Deferred(conn[r]))]
                    /\ SendRequestReturns(r, ServerCallResults[resp])
    /\ arg' = [arg EXCEPT ![r] = [AtStart(@.req) EXCEPT
                                      !.whole = IF wpc'[r] = "reconnect" THEN arg[r].whole ELSE 0]]
    /\ out' = [out EXCEPT ![conn[r]] = Drained(@)]
    /\ UNCHANGED <<Conn, serverVars, handlerVars>>

WireNext ==
    \/ \E r \in Requests : findConnection(r)
    \/ \E r \in Requests : sendHeader(r)
    \/ \E r \in Requests : sendParams(r)
    \/ \E r \in Requests : sendBody(r)
    \/ \E r \in Requests : awaitResponse(r)
    \/ \E r \in Requests : doRequestReturns(r)
    \/ \E r \in Requests : reconnect(r)

WireSpec == WireInit /\ [][WireNext]_vars

(***************************************************************************)
(* One SendRequest alone, record by record, for bodies around the size of  *)
(* a chunk and parameters of several lengths.                              *)
(***************************************************************************)
RecordBodies == {0, 1, 65535, 65536, 131070, 131071}
RECURSIVE Doubled(_, _)
Doubled(s, k) == IF k = 0 THEN s ELSE Doubled(s \o s, k - 1)

\* A request URI of 65536 bytes, which the HTTP server accepts.
LongURI == Doubled("/", 16)

RecordParams == {WireParams, MapPut(WireParams, K_SCRIPT_FILENAME, "/var/www/index.php"),
                 MapPut(WireParams, K_REQUEST_URI, LongURI)}
RecordIds    == {1, 65535}

RecordRequests ==
    {CallRequest(p, b, id) : p \in RecordParams, b \in RecordBodies, id \in RecordIds}

RecordInit ==
    /\ WireStart
    /\ \E req \in RecordRequests :
          arg = [r \in Requests |-> AtStart(IF r = 1 THEN req ELSE CallRequest(WireParams, 0, 1))]

RecordNext ==
    \/ findConnection(1)
    \/ sendHeader(1)
    \/ sendParams(1)
    \/ sendBody(1)
    \/ awaitResponse(1)
    \/ doRequestReturns(1)
    \/ reconnect(1)

RecordSpec == RecordInit /\ [][RecordNext]_vars

(***************************************************************************)
(* NewFCgiClient, one iteration of its loop after the other, for a         *)
(* config.FpmPoolSize of arg[1].  out[1] is its position: the loop         *)
(* variable i, what net.Dial gave so far, the connections sent to the      *)
(* channel conns, and ret, empty until it returns and then <<result>>.     *)
(***************************************************************************)
PoolSizes == 0..MaxPoolSize

NilClient == <<>>     \* a nil *FCgiClient; <<client>> points to client

\* A NewFCgiClient that returns the connections it has when a dial fails.
DialFailedPartial(conns) ==
    [client |-> << [Pool |-> conns] >>, err |-> "could not connect to FPM socket"]

\* if err != nil { return nil, fmt.Errorf(...) }
DialFailed(conns) == [client |-> NilClient, err |-> "could not connect to FPM socket"]

\* return &FCgiClient{Pool: conns, ...}, nil
Dialled(conns) == [client |-> << [Pool |-> conns] >>, err |-> Nil]

PoolInit ==
    /\ ServerInit
    /\ arg \in {<<size>> : size \in PoolSizes}
    /\ out = << [i |-> 0, dials |-> <<>>, conns |-> <<>>, ret |-> <<>>] >>

\* One iteration: net.Dial, and on success the connection with id i is sent
\* to the channel.
Dial ==
    /\ out[1].ret = <<>>
    /\ out[1].i < arg[1]
    /\ \E ok \in BOOLEAN :
          out' = IF ok
                 THEN << [out[1] EXCEPT !.i = @ + 1, !.dials = Append(@, TRUE),
                                        !.conns = Append(@, [id |-> out[1].i])] >>
                 ELSE << [out[1] EXCEPT !.dials = Append(@, FALSE),
                                        !.ret = <<DialFailed(out[1].conns)>>] >>
    /\ UNCHANGED <<poolVars, serverVars, workerVars, handlerVars, arg>>

\* The loop is over.
PoolInitiated ==
    /\ out[1].ret = <<>>
    /\ out[1].i >= arg[1]
    /\ out' = << [out[1] EXCEPT !.ret = <<Dialled(out[1].conns)>>] >>
    /\ UNCHANGED <<poolVars, serverVars, workerVars, handlerVars, arg>>

PoolNext == Dial \/ PoolInitiated

PoolSpec == PoolInit /\ [][PoolNext]_vars

(***************************************************************************)
(* The channel client.Pool and the callers of findConnection.  A caller    *)
(* enters the select: it receives at once when the buffer of the channel   *)
(* holds a slot, and otherwise waits in the queue of receivers of the      *)
(* channel, which a send serves first come, first served.  When its timer  *)
(* fires, a second later, the caller leaves the queue, logs that all       *)
(* connections are busy and enters the select again.  The deferred         *)
(* function of SendRequest sends the slot: to the first waiting receiver,  *)
(* or, none waiting, to the buffer.  Callers are numbered in the order in  *)
(* which they call findConnection.  out is [pc, buf, recvq, held, served]. *)
(***************************************************************************)
Callers == 1..(FpmPoolSize + 4)

QueueInit ==
    /\ ServerInit
    /\ arg = NoValue
    /\ out = [pc     |-> [w \in Callers |-> "none"],
              buf    |-> NewFCgiClient,
              recvq  |-> <<>>,
              held   |-> [w \in Callers |-> NoConn],
              served |-> <<>>]

Without(q, w) == SelectSeq(q, LAMBDA x : x # w)

\* The caller w receives the slot c.
Received(o, w, c) ==
    [o EXCEPT !.pc[w] = "holding", !.held[w] = c, !.served = Append(@, w)]

\* The select statement is entered by w.
Select(o, w) ==
    IF o.buf # <<>>
    THEN [Received(o, w, Head(o.buf)) EXCEPT !.buf = Tail(o.buf)]
    ELSE [o EXCEPT !.pc[w] = "waiting", !.recvq = Append(@, w)]

\* SendRequest calls findConnection: the first round of the loop.
callFindConnection(w) ==
    /\ out.pc[w] = "none"
    /\ \A v \in Callers : v < w => out.pc[v] # "none"
    /\ out' = Select(out, w)
    /\ UNCHANGED <<poolVars, serverVars, workerVars, handlerVars, arg>>

\* case <-timer: the caller stops waiting and logs.
selectTimer(w) ==
    /\ out.pc[w] = "waiting"
    /\ out' = [out EXCEPT !.pc[w] = "logging", !.recvq = Without(@, w)]
    /\ UNCHANGED <<poolVars, serverVars, workerVars, handlerVars, arg>>

\* The next round of the loop.
selectAgain(w) ==
    /\ out.pc[w] = "logging"
    /\ out' = Select(out, w)
    /\ UNCHANGED <<poolVars, serverVars, workerVars, handlerVars, arg>>

\* SendRequest returns: client.Pool <- conn.
deferredSend(w) ==
    /\ out.pc[w] = "holding"
    /\ LET o == [out EXCEPT !.pc[w] = "done", !.held[w] = NoConn]
       IN  out' = IF out.recvq # <<>>
                  THEN [Received(o, Head(out.recvq), out.held[w]) EXCEPT !.recvq = Tail(out.recvq)]
                  ELSE [o EXCEPT !.buf = Append(@, out.held[w])]
    /\ UNCHANGED <<poolVars, serverVars, workerVars, handlerVars, arg>>

QueueNext ==
    \/ \E w \in Callers : callFindConnection(w)
    \/ \E w \in Callers : selectTimer(w)
    \/ \E w \in Callers : selectAgain(w)
    \/ \E w \in Callers : deferredSend(w)

QueueSpec == QueueInit /\ [][QueueNext]_vars

(***************************************************************************)
(* The header arg[1] is written as writeRecord writes it and read as       *)
(* readResponse reads it: out becomes <<bytes>> and then <<bytes, header>>.*)
(***************************************************************************)
HeaderTypes    == {FCGI_BEGIN_REQUEST, FCGI_END_REQUEST, FCGI_PARAMS, FCGI_STDIN,
                   FCGI_STDOUT, FCGI_STDERR}
HeaderIds      == {0, 1, 255, 256, 258, 65535}
HeaderLengths  == {0, 8, 255, 256, 513, 65535}
HeaderPaddings == {0, 1, 7, 255}

Headers ==
    [Version : {FCGI_VERSION}, Type : HeaderTypes, RequestId : HeaderIds,
     ContentLength : HeaderLengths, PaddingLength : HeaderPaddings, Reserved : {0}]

HeaderInit == ServerInit /\ arg \in {<<h>> : h \in Headers} /\ out = NoValue

WriteHeader ==
    /\ out = NoValue
    /\ out' = <<EncodeHeader(arg[1])>>
    /\ UNCHANGED <<poolVars, serverVars, workerVars, handlerVars, arg>>

ReadHeader ==
    /\ Len(out) = 1
    /\ out' = <<out[1], DecodeHeader(out[1])>>
    /\ UNCHANGED <<poolVars, serverVars, workerVars, handlerVars, arg>>

HeaderNext == WriteHeader \/ ReadHeader

HeaderSpec == HeaderInit /\ [][HeaderNext]_vars

(***************************************************************************)
(* readResponse reads what FPM sent.  arg is the request id, the records   *)
(* FPM sent, each with its header, its content and the number of its       *)
(* padding bytes, and their bytes; out is the position of the loop.        *)
(***************************************************************************)
FpmRecord(type, id, content, padding) ==
    [header  |-> [Version |-> FCGI_VERSION, Type |-> type, RequestId |-> id,
                  ContentLength |-> Size(content), PaddingLength |-> padding,
                  Reserved |-> 0],
     content |-> content,
     padding |-> padding]

RecordBytes(rec) ==
    Concat(Concat(Runs(EncodeHeader(rec.header)), rec.content),
           PutRun(<<>>, 0, rec.padding))

RECURSIVE StreamOf(_)
StreamOf(records) ==
    IF records = <<>> THEN <<>>
    ELSE Concat(RecordBytes(records[1]), StreamOf(Tail(records)))

ReadId  == 258      \* the id of the request whose response is read
OtherId == 513      \* the id of another request

EndRequest == FpmRecord(FCGI_END_REQUEST, ReadId, PutRun(<<>>, 0, 8), 0)

\* What FPM may send: STDOUT, STDERR and other records of the request, with
\* and without padding, at the largest content lengths, and STDOUT records
\* of another request: an empty one, one of five bytes and one whose
\* eight bytes read as the header of an END_REQUEST of the request.
FpmRecords ==
    {FpmRecord(FCGI_STDOUT, ReadId, PutRun(<<>>, 97, 5), 3),
     FpmRecord(FCGI_STDOUT, ReadId, PutRun(<<>>, 98, 8), 0),
     FpmRecord(FCGI_STDERR, ReadId, PutRun(<<>>, 101, 3), 5),
     FpmRecord(11, ReadId, PutRun(<<>>, 0, 8), 0),
     FpmRecord(FCGI_STDOUT, OtherId, <<>>, 0),
     FpmRecord(FCGI_STDOUT, OtherId, PutRun(<<>>, 120, 5), 3),
     FpmRecord(FCGI_STDOUT, OtherId, Runs(EncodeHeader(EndRequest.header)), 0),
     FpmRecord(FCGI_STDOUT, ReadId, PutRun(<<>>, 99, 65535), 1),
     FpmRecord(FCGI_STDOUT, ReadId, PutRun(<<>>, 100, 65528), 7),
     EndRequest}

FpmStreams ==
    UNION {[1..n -> FpmRecords] : n \in 0..MaxRecords}

ReadInit ==
    /\ ServerInit
    /\ \E records \in FpmStreams :
          arg = [requestId |-> ReadId,
                 records   |-> Append(records, EndRequest),
                 stream    |-> StreamOf(Append(records, EndRequest))]
    /\ out = [rest |-> arg.stream, stdout |-> <<>>, pos |-> 0, state |-> "reading",
              last |-> <<>>]

readRecord ==
    /\ out.state = "reading"
    /\ out' = ReadRound(arg.requestId, out)
    /\ UNCHANGED <<poolVars, serverVars, workerVars, handlerVars, arg>>

ReadNext == readRecord

ReadSpec == ReadInit /\ [][ReadNext]_vars

(***************************************************************************)
(* Properties of the pool and of SendRequest.                              *)
(***************************************************************************)
Holding    == {r \in Requests : conn[r] # NoConn}
HoldersOf(c) == {r \in Requests : conn[r] = c}
IdleCount(c) == Cardinality({i \in DOMAIN Pool : Pool[i] = c})
Saturated  == Cardinality(Holding) = FpmPoolSize

\* C1: until Close is called, the idle slots and the slots held by
\* SendRequest calls partition the pool: their numbers add up to the pool
\* size, and every slot is either idle exactly once or held by exactly one
\* SendRequest call, never both.
C1_PoolPartition ==
    phase \in {"running", "draining"} =>
        /\ Len(Pool) + Cardinality(Holding) = FpmPoolSize
        /\ \A c \in Slots : IdleCount(c) + Cardinality(HoldersOf(c)) = 1
        /\ \A r \in Requests : conn[r] = NoConn \/ conn[r] \in Slots

\* A timed-out request holds the slot in its reconnect while another waits.
C1_Witness ==
    \E r, q \in Requests :
        /\ r # q
        /\ hpc[r] = "timeout" /\ wpc[r] = "reconnect" /\ conn[r] \in Slots
        /\ wpc[q] = "acquire"
        /\ phase = "running"

\* C2: every SendRequest call acquires exactly once and releases exactly
\* once on every exit path, and the slot it sends back to the channel is the
\* slot it received, also after a reconnect.
C2_CountsBalanced ==
    \A r \in Requests :
        /\ wpc[r] \in {"none", "call", "acquire"} =>
               events[r].acq = 0 /\ events[r].rel = 0 /\ conn[r] = NoConn
        /\ wpc[r] \in {"doRequest", "reconnect"} =>
               events[r].acq = 1 /\ events[r].rel = 0 /\ conn[r] \in Slots
        /\ wpc[r] = "finished" =>
               /\ conn[r] = NoConn
               /\ events[r].acq = events[r].rel
               /\ events[r].acq = IF fpmErr[r] = "could not read request body" THEN 0 ELSE 1

C2_SameSlot ==
    \A r \in Requests :
        /\ conn[r] # NoConn => conn'[r] \in {conn[r], NoConn}
        /\ (conn[r] # NoConn /\ conn'[r] = NoConn) =>
               /\ Pool' = Append(Pool, conn[r])
               /\ events'[r].rel = events[r].rel + 1

C2_AcquireRelease == [](C2_CountsBalanced) /\ [][C2_SameSlot]_vars

\* A SendRequest that reconnected and then succeeded has returned its slot.
C2_Witness ==
    \E r \in Requests :
        /\ wpc[r] = "finished" /\ fpmErr[r] = Nil
        /\ events[r] = [acq |-> 1, rel |-> 1, doReq |-> 2, reconn |-> 1]
        /\ Pool # <<>>

\* C3: one SendRequest calls doRequest at most twice and reconnect at most
\* once: the reconnect follows the failed first doRequest, a failed
\* reconnect ends the call with an error and without a second doRequest, a
\* successful one is followed by exactly one more doRequest, whose outcome
\* is the outcome of the call.
C3_RetryPolicy ==
    \A r \in Requests :
        LET e == events[r] IN
        /\ e.doReq <= 2 /\ e.reconn <= 1
        /\ wpc[r] = "doRequest" => e.doReq = e.reconn
        /\ wpc[r] = "reconnect" => e.doReq = 1 /\ e.reconn = 0
        /\ (wpc[r] = "finished" /\ e.acq = 1) =>
               \/ /\ e.doReq = 1 /\ e.reconn = 0
                  /\ fpmErr[r] \in {Nil, "could not read response body"}
               \/ /\ e.doReq = 1 /\ e.reconn = 1
                  /\ fpmErr[r] = "could not reconnect"
               \/ /\ e.doReq = 2 /\ e.reconn = 1
                  /\ fpmErr[r] \in {Nil, "could not send the request",
                                     "could not read response body"}
        /\ (wpc[r] = "finished" /\ fpmErr[r] = Nil) =>
               /\ fpmResponse[r] # NilData
               /\ fpmResponse[r][1].Body = "Created"

\* The first doRequest failed, the reconnect and the retry succeeded.
C3_Witness ==
    \E r \in Requests :
        /\ wpc[r] = "finished" /\ fpmErr[r] = Nil /\ fpmResponse[r] # NilData
        /\ events[r].doReq = 2 /\ events[r].reconn = 1

\* C4: while all slots are held, a request waiting in findConnection stays
\* there; a request leaves findConnection only with a slot that was idle in
\* the channel (sent back by a holder) and that no other request holds.
C4_Blocked ==
    \A q \in Requests :
        /\ (wpc[q] = "acquire" /\ Saturated) => wpc'[q] = "acquire" /\ conn'[q] = NoConn
        /\ (wpc[q] = "acquire" /\ wpc'[q] # "acquire") =>
               /\ conn'[q] \in Range(Pool)
               /\ \A p \in Requests \ {q} : conn'[p] # conn'[q]
               /\ events[q].doReq = 0

C4_Saturation == [][C4_Blocked]_vars

(***************************************************************************)
(* Properties of the handler's race between Call and the deadline.         *)
(***************************************************************************)
\* C5, as claimed: a request whose deadline has expired while it is in
\* findConnection, waiting for a connection, stops waiting: it does not
\* obtain a connection afterwards.
C5_WaitCancelled ==
    \A r \in Requests :
        (hpc[r] = "timeout" /\ wpc[r] = "acquire") => conn'[r] = NoConn

C5_AcquireCancellable == [][C5_WaitCancelled]_vars

\* C6: when the handler leaves the select while Call has not returned, it
\* is by the deadline; a request answered by the deadline has got exactly
\* the response 408 "timeout" without headers and exactly one observation
\* of the HTTP leg, with code 408 and an empty endpoint; nothing more is
\* written or observed for it, whatever Call returns later.
C6_TimeoutWritten ==
    \A r \in Requests :
        hpc[r] = "timeout" =>
            /\ writer[r] = << [code |-> 408, headers |-> <<>>, body |-> "timeout"] >>
            /\ httpObs[r] = << [type |-> "http", code |-> "408", endpoint |-> ""] >>

C6_TimeoutStep ==
    \A r \in Requests :
        /\ (hpc[r] = "select" /\ wpc[r] # "finished" /\ hpc'[r] # "select") =>
               hpc'[r] = "timeout"
        /\ hpc[r] = "timeout" =>
               hpc'[r] = "timeout" /\ writer'[r] = writer[r] /\ httpObs'[r] = httpObs[r]

C6_Timeout == [](C6_TimeoutWritten) /\ [][C6_TimeoutStep]_vars

\* The deadline passed during the exchange with FPM, which is still running.
C6_Witness ==
    \E r \in Requests :
        /\ hpc[r] = "timeout" /\ wpc[r] = "doRequest" /\ conn[r] \in Slots
        /\ writer[r] # <<>>

\* C8: when the handler leaves the select by worker.Done() and Call
\* returned an error, the response is 500 "Internal server error" without
\* any header, the error is logged at error level, and one observation of
\* the HTTP leg with code 500 and an empty endpoint is made.
C8_ErrorWritten ==
    \A r \in Requests :
        hpc[r] = "error" =>
            /\ writer[r] = << [code |-> 500, headers |-> <<>>,
                               body |-> "Internal server error"] >>
            /\ httpObs[r] = << [type |-> "http", code |-> "500", endpoint |-> ""] >>
            /\ \E i \in DOMAIN hlog[r] : hlog[r][i].level = "error"

C8_ErrorStep ==
    \A r \in Requests :
        (/\ hpc[r] = "select" /\ wpc[r] = "finished" /\ fpmErr[r] # Nil
         /\ hpc'[r] \notin {"select", "timeout"}) => hpc'[r] = "error"

C8_AdapterError == [](C8_ErrorWritten) /\ [][C8_ErrorStep]_vars

\* The reconnect failed and the handler answered 500.
C8_Witness ==
    \E r \in Requests :
        /\ hpc[r] = "error" /\ fpmErr[r] = "could not reconnect"
        /\ writer[r] # <<>>

(***************************************************************************)
(* The server with the exchanges with FPM completing: a doRequest or a     *)
(* reconnect that has begun ends, in success or in error.                  *)
(***************************************************************************)
ExchangesComplete ==
    \A r \in Requests : WF_vars(doRequest(r)) /\ WF_vars(reconnect(r))

LiveSpec == Init /\ [][Next]_vars /\ ExchangesComplete

\* C7: the deadline does not release the connection: a request answered by
\* the deadline keeps its slot until its SendRequest returns, which sends
\* the slot back to the channel once; and, the exchanges completing, there
\* comes a moment from which no request answered by the deadline holds a
\* slot, each having sent back to the channel the slot it received.
C7_HeldStep ==
    \A r \in Requests :
        /\ (hpc[r] = "select" /\ hpc'[r] = "timeout") =>
               conn'[r] = conn[r] /\ Pool' = Pool /\ wpc'[r] = wpc[r]
        /\ (hpc[r] = "timeout" /\ conn[r] # NoConn) =>
               \/ /\ conn'[r] = conn[r]
                  /\ IdleCount(conn[r])' = 0
                  /\ events'[r].rel = 0
               \/ /\ conn'[r] = NoConn
                  /\ wpc'[r] = "finished"
                  /\ Pool' = Append(Pool, conn[r])
                  /\ events'[r].rel = 1

C7_AllReturned ==
    \A r \in Requests :
        hpc[r] = "timeout" => conn[r] = NoConn /\ events[r].rel = events[r].acq

C7_NoLeak == [][C7_HeldStep]_vars /\ <>[]C7_AllReturned

\* The request was answered by the deadline while it held a slot, and its
\* SendRequest has since returned the slot.
C7_Witness ==
    \E r \in Requests :
        /\ hpc[r] = "timeout" /\ wpc[r] = "finished"
        /\ events[r].acq = 1 /\ events[r].rel = 1
        /\ Pool # <<>>

\* All slots are held and one more request waits in findConnection.
C4_Witness ==
    /\ Saturated
    /\ \E q \in Requests : wpc[q] = "acquire" /\ hpc[q] = "select"
    /\ \A r \in Holding : wpc[r] = "doRequest"

(***************************************************************************)
(* Properties of the header filters.                                       *)
(***************************************************************************)
LinesOf(wire) == {wire.lines[i] : i \in DOMAIN wire.lines}

\* The values the lines of `wire` give under `name`, whatever the casing.
WireValues(wire, name) == {l[2] : l \in {x \in LinesOf(wire) : ToLower(x[1]) = ToLower(name)}}

\* The values the header `h` holds under `name`, whatever the casing.
WrittenValues(h, name) ==
    UNION {Range(h[k]) : k \in {x \in DOMAIN h : ToLower(x) = ToLower(name)}}

\* C9: in every response written, no header is named x-powered-by or
\* x-app-route in any casing; and when the response of FPM is the one
\* written, every value FPM sent under any other name is among the values
\* the response has under that name.
C9_OutboundFiltered ==
    out # NoValue =>
        LET reply   == arg[1]
            written == out[1].written
        IN  /\ \A w \in Range(written) : \A k \in DOMAIN w.headers :
                   ToLower(k) \notin {<<"x", "-", "p", "o", "w", "e", "r", "e", "d", "-", "b", "y">>,
                                     <<"x", "-", "a", "p", "p", "-", "r", "o", "u", "t", "e">>}
            /\ out[1].exit = "served" =>
                   \A l \in LinesOf(reply) :
                          ToLower(l[1]) \notin {<<"x", "-", "p", "o", "w", "e", "r", "e", "d", "-", "b", "y">>,
                                               <<"x", "-", "a", "p", "p", "-", "r", "o", "u", "t", "e">>}
                              => l[2] \in WrittenValues(written[1].headers, l[1])

\* FPM sent a protected header in lower case and another header, and the
\* response of FPM was written.
C9_Witness ==
    /\ out # NoValue /\ arg # NoValue
    /\ out[1].exit = "served"
    /\ \E l \in LinesOf(arg[1]) : l[1] = <<"x", "-", "a", "p", "p", "-", "r", "o", "u", "t", "e">>
    /\ DOMAIN out[1].written[1].headers # {}

\* C10: every header of the request that is not named content-type or
\* content-length (in any casing) has the parameter HTTP_ followed by its
\* name in upper case, whose value is one of the values the request gives
\* under that name; a header named content-type or content-length has no
\* such parameter; and CONTENT_TYPE is the first value of Content-Type, or
\* empty.
C10_FirstContentType(wire) ==
    LET at == {i \in DOMAIN wire.lines : ToLower(wire.lines[i][1]) = <<"c", "o", "n", "t", "e", "n", "t", "-", "t", "y", "p", "e">>}
    IN  IF at = {} THEN ""
        ELSE wire.lines[CHOOSE i \in at : \A j \in at : i <= j][2]

C10_InboundPropagated ==
    out # NoValue =>
        LET wire   == arg[1]
            params == out[1]
        IN  /\ \A l \in LinesOf(wire) :
                   LET key == <<"H", "T", "T", "P", "_">> \o ToUpper(l[1])
                   IN  IF ToLower(l[1]) \in {<<"c", "o", "n", "t", "e", "n", "t", "-", "t", "y", "p", "e">>,
                                             <<"c", "o", "n", "t", "e", "n", "t", "-", "l", "e", "n", "g", "t", "h">>}
                       THEN key \notin DOMAIN params
                       ELSE /\ key \in DOMAIN params
                            /\ params[key] \in WireValues(wire, l[1])
            /\ params[<<"C", "O", "N", "T", "E", "N", "T", "_", "T", "Y", "P", "E">>] = C10_FirstContentType(wire)

\* The request has a protected header and another one, and Call built the
\* parameters.
C10_Witness ==
    /\ out # NoValue /\ arg # NoValue
    /\ \E l \in LinesOf(arg[1]) : l[1] = <<"C", "O", "N", "T", "E", "N", "T", "-", "L", "E", "N", "G", "T", "H">>
    /\ \E l \in LinesOf(arg[1]) : l[1] = <<"x", "-", "c", "u", "s", "t", "o", "m", "-", "h", "e", "a", "d", "e", "r">>
    /\ \E k \in DOMAIN out[1] : SubSeq(k, 1, 5) = <<"H", "T", "T", "P", "_">> /\ Len(k) > 5

(***************************************************************************)
(* Properties of the parameter table.                                      *)
(***************************************************************************)
\* The orderings of `pairs`.
Orderings(pairs) ==
    {[i \in DOMAIN pairs |-> pairs[f[i]]] :
        f \in {g \in [DOMAIN pairs -> DOMAIN pairs] :
                  \A i, j \in DOMAIN pairs : i # j => g[i] # g[j]}}

KeysAscend(pairs) ==
    \A i, j \in DOMAIN pairs : i < j => KeyRank(pairs[i][1]) <= KeyRank(pairs[j][1])

\* C11: the table has SCRIPT_FILENAME = the configured script,
\* SERVER_SOFTWARE = gophpfpm/1.0.0, SERVER_NAME = the Host of the request,
\* SERVER_PORT = the configured port in decimal, REQUEST_URI = the path,
\* followed by "?" and the raw query when there is a query, QUERY_STRING =
\* the pairs of the query joined in ascending order of their keys,
\* REQUEST_METHOD = the method, CONTENT_TYPE = the first Content-Type value
\* or empty.
C11_ParamTable ==
    out # NoValue =>
        LET wire   == arg[1]
            params == out[1]
        IN  /\ params[<<"S", "C", "R", "I", "P", "T", "_", "F", "I", "L", "E", "N", "A", "M", "E">>] = "/var/www/index.php"
            /\ params[<<"S", "E", "R", "V", "E", "R", "_", "S", "O", "F", "T", "W", "A", "R", "E">>] = "gophpfpm/1.0.0"
            /\ params[<<"S", "E", "R", "V", "E", "R", "_", "N", "A", "M", "E">>] = wire.host
            /\ params[<<"S", "E", "R", "V", "E", "R", "_", "P", "O", "R", "T">>] = "8080"
            /\ params[<<"R", "E", "Q", "U", "E", "S", "T", "_", "U", "R", "I">>] =
                   IF wire.query = <<>> THEN wire.path
                   ELSE wire.path \o "?" \o JoinQuery(wire.query)
            /\ \E sorted \in Orderings(wire.query) :
                   KeysAscend(sorted) /\ params[<<"Q", "U", "E", "R", "Y", "_", "S", "T", "R", "I", "N", "G">>] = JoinQuery(sorted)
            /\ params[<<"R", "E", "Q", "U", "E", "S", "T", "_", "M", "E", "T", "H", "O", "D">>] = wire.method
            /\ params[<<"C", "O", "N", "T", "E", "N", "T", "_", "T", "Y", "P", "E">>] = C10_FirstContentType(wire)

\* A POST with a query whose keys are not in order and a Content-Type.
C11_Witness ==
    /\ out # NoValue /\ arg # NoValue
    /\ arg[1].method = "POST"
    /\ Len(arg[1].query) = 2
    /\ \E l \in LinesOf(arg[1]) : ToLower(l[1]) = <<"c", "o", "n", "t", "e", "n", "t", "-", "t", "y", "p", "e">>
    /\ <<"R", "E", "Q", "U", "E", "S", "T", "_", "U", "R", "I">> \in DOMAIN out[1]

\* C12, as claimed: the table has the key HTTP_HOST, with the Host of the
\* request.
C12_HttpHost ==
    out # NoValue =>
        /\ <<"H", "T", "T", "P", "_", "H", "O", "S", "T">> \in DOMAIN out[1]
        /\ out[1][<<"H", "T", "T", "P", "_", "H", "O", "S", "T">>] = arg[1].host

\* C14: whatever the request, SCRIPT_FILENAME is the configured script, and
\* every key of the table other than the eight base keys starts with HTTP_.
C14_BaseKeys ==
    {<<"S", "C", "R", "I", "P", "T", "_", "F", "I", "L", "E", "N", "A", "M", "E">>,
     <<"S", "E", "R", "V", "E", "R", "_", "S", "O", "F", "T", "W", "A", "R", "E">>,
     <<"S", "E", "R", "V", "E", "R", "_", "N", "A", "M", "E">>,
     <<"S", "E", "R", "V", "E", "R", "_", "P", "O", "R", "T">>,
     <<"R", "E", "Q", "U", "E", "S", "T", "_", "U", "R", "I">>,
     <<"Q", "U", "E", "R", "Y", "_", "S", "T", "R", "I", "N", "G">>,
     <<"R", "E", "Q", "U", "E", "S", "T", "_", "M", "E", "T", "H", "O", "D">>,
     <<"C", "O", "N", "T", "E", "N", "T", "_", "T", "Y", "P", "E">>}

C14_ScriptFixed ==
    out # NoValue =>
        LET params == out[1]
        IN  /\ params[<<"S", "C", "R", "I", "P", "T", "_", "F", "I", "L", "E", "N", "A", "M", "E">>] = "/var/www/index.php"
            /\ C14_BaseKeys \subseteq DOMAIN params
            /\ \A k \in DOMAIN params \ C14_BaseKeys :
                   Len(k) > 5 /\ SubSeq(k, 1, 5) = <<"H", "T", "T", "P", "_">>

\* The request has a header named after the script parameter.
C14_Witness ==
    /\ out # NoValue /\ arg # NoValue
    /\ \E l \in LinesOf(arg[1]) : l[1] = <<"s", "c", "r", "i", "p", "t", "_", "f", "i", "l", "e", "n", "a", "m", "e">>
    /\ <<"H", "T", "T", "P", "_", "S", "C", "R", "I", "P", "T", "_", "F", "I", "L", "E", "N", "A", "M", "E">> \in DOMAIN out[1]

\* C13: the parameters sent to FPM have CONTENT_LENGTH exactly when the
\* body is not empty, and then with the length of the body in decimal,
\* whatever the Content-Length header of the request says; the retry sends
\* the same parameters as the first attempt.
C13_ContentLength ==
    Len(out) = 3 =>
        LET wire == arg[1]
            key  == <<"C", "O", "N", "T", "E", "N", "T", "_", "L", "E", "N", "G", "T", "H">>
        IN  /\ key \in DOMAIN out[2] <=> wire.body > 0
            /\ wire.body = 4 => out[2][key] = "4"
            /\ out[3] = out[2]
            /\ \A k \in DOMAIN out[2] \ {key} : k \in DOMAIN out[1] /\ out[2][k] = out[1][k]

\* A request with a body and a Content-Length header that says otherwise.
C13_Witness ==
    /\ Len(out) = 3
    /\ arg[1].body = 4
    /\ \E l \in LinesOf(arg[1]) : ToLower(l[1]) = <<"c", "o", "n", "t", "e", "n", "t", "-", "l", "e", "n", "g", "t", "h">> /\ l[2] = "a"
    /\ <<"C", "O", "N", "T", "E", "N", "T", "_", "L", "E", "N", "G", "T", "H">> \in DOMAIN out[3]

(***************************************************************************)
(* Properties of the response of FPM.                                      *)
(***************************************************************************)
\* The value the lines of `wire` give first under `name`, or "".
FirstValue(wire, name) ==
    LET at == {i \in DOMAIN wire.lines : ToLower(wire.lines[i][1]) = ToLower(name)}
    IN  IF at = {} THEN ""
        ELSE wire.lines[CHOOSE i \in at : \A j \in at : i <= j][2]

\* C15: when Call returns without error, its ResponseData has the status
\* code readResponse returned, the headers readResponse returned, which hold
\* every value of every header line of the reply, protected or not, the
\* whole body, and as route the first X-App-Route value, or "" without one.
C15_ResponseData ==
    (out # NoValue /\ out[3].err = Nil) =>
        LET reply == arg[1]
            data  == out[3].data[1]
        IN  /\ data.Status = out[2].StatusCode
            /\ data.Headers = out[2].Header
            /\ \A l \in LinesOf(reply) : l[2] \in WrittenValues(data.Headers, l[1])
            /\ data.Body = reply.body
            /\ data.Route = FirstValue(reply, <<"x", "-", "a", "p", "p", "-", "r", "o", "u", "t", "e">>)

\* The reply has a route header in upper case and a Status, and Call
\* returned the data.
C15_Witness ==
    /\ out # NoValue /\ arg # NoValue
    /\ out[3].err = Nil
    /\ arg[1].status # <<>>
    /\ \E l \in LinesOf(arg[1]) : l[1] = <<"X", "-", "A", "P", "P", "-", "R", "O", "U", "T", "E">>
    /\ out[3].data[1].Route # ""

\* The part of `text` before its first space or tab.
FirstToken(text) ==
    LET blanks == {i \in DOMAIN text : text[i] \in {" ", "\t"}}
    IN  IF blanks = {} THEN text
        ELSE SubSeq(text, 1, (CHOOSE i \in blanks : \A j \in blanks : i <= j) - 1)

IsDecimal(token) == token # <<>> /\ \A i \in DOMAIN token : IsDigit(token[i])

\* C16, as claimed: when the reply has a Status header whose first token is
\* a decimal integer, readResponse returns that integer as the status code
\* and the whole value as the status; without a Status header the status
\* code is 200.
C16_StatusOverride ==
    out # NoValue =>
        LET reply == arg[1]
        IN  IF reply.status = <<>>
            THEN out[2].err = Nil /\ out[2].StatusCode = 200
            ELSE IsDecimal(FirstToken(reply.status[1])) =>
                     /\ out[2].err = Nil
                     /\ out[2].StatusCode = ParseDigits(FirstToken(reply.status[1]))
                     /\ out[2].Status = reply.status[1]

\* C17, as claimed: readResponse does not return a response whose status
\* code is 0.
C17_StatusNotZero ==
    out # NoValue => (out[2].err # Nil \/ out[2].StatusCode # 0)

(***************************************************************************)
(* Properties of the records of a doRequest.                               *)
(***************************************************************************)
\* The place of an entry of the log of a connection in a request: 1 for
\* BEGIN_REQUEST, 2 for a PARAMS record with content, 3 for the empty
\* PARAMS record, 4 for a STDIN record with content, 5 for the empty STDIN
\* record, 6 for the reading of the response, 0 for anything else.
Place(e) ==
    IF e.kind = "read" THEN 6
    ELSE IF e.rec.header.Type = 1 THEN 1
    ELSE IF e.rec.header.Type = 4 THEN (IF e.rec.data.len > 0 THEN 2 ELSE 3)
    ELSE IF e.rec.header.Type = 5 THEN (IF e.rec.data.len > 0 THEN 4 ELSE 5)
    ELSE 0

PlacesOf(log) == [i \in DOMAIN log |-> Place(log[i])]

\* C18: on every connection the records of the doRequest in progress are,
\* in this order, one BEGIN_REQUEST, one PARAMS record for each parameter,
\* one empty PARAMS record, the STDIN records with content in the order of
\* the body, one empty STDIN record, and only after them the reading of the
\* response; all of them carry the id of the one request that wrote them,
\* and no record of another request is among them.
C18_RecordOrder ==
    \A c \in Slots :
        LET log    == out[c]
            places == PlacesOf(log)
            req    == arg[log[1].by].req
            params == {i \in DOMAIN log : places[i] = 2}
            chunks == {i \in DOMAIN log : places[i] = 4}
        IN  log # <<>> =>
                /\ places[1] = 1
                /\ \A i \in 1..(Len(log) - 1) :
                       <<places[i], places[i + 1]>> \in
                           {<<1, 2>>, <<1, 3>>, <<2, 2>>, <<2, 3>>, <<3, 4>>, <<3, 5>>,
                            <<4, 4>>, <<4, 5>>, <<5, 6>>}
                /\ \A i \in DOMAIN log :
                       /\ log[i].by = log[1].by
                       /\ log[i].kind = "write" => log[i].rec.header.RequestId = req.requestId
                /\ Cardinality({log[i].rec.data.of[3] : i \in params}) = Cardinality(params)
                /\ (\E i \in DOMAIN log : places[i] = 3) =>
                       {log[i].rec.data.of[3] : i \in params} = DOMAIN req.Params
                /\ \A i \in chunks :
                       log[i].rec.data.of[1] =
                           (IF places[i - 1] = 4 THEN log[i - 1].rec.data.of[2] ELSE 0)
                /\ (\E i \in DOMAIN log : places[i] = 5) =>
                       IF req.Body = 0 THEN chunks = {}
                       ELSE \E i \in chunks : places[i + 1] = 5 /\ log[i].rec.data.of[2] = req.Body

\* A second doRequest with a body has written all its records and reads the
\* response, on a connection another request has used and given back.
C18_Witness ==
    \E c \in Slots :
        /\ out[c] # <<>>
        /\ PlacesOf(out[c]) = <<1, 2, 2, 3, 4, 4, 5, 6>>
        /\ events[out[c][1].by].doReq = 1
        /\ \E r \in Requests : wpc[r] = "finished" /\ events[r].rel = 1

\* The lengths of the STDIN records of a log, in the order of the log.
StdinOf(log) == SelectSeq(log, LAMBDA e : e.kind = "write" /\ e.rec.header.Type = 5)

StdinLengths(log) == [i \in DOMAIN StdinOf(log) |-> StdinOf(log)[i].rec.data.len]

\* C19: once sendBody has sent a body of L bytes, the STDIN records are
\* ceil(L / 65535) records with content, each of at most 65535 bytes, that
\* hold the body piece after piece from its first byte to its last,
\* followed by exactly one empty record: (0) for L = 0, (65535, 0) for
\* L = 65535 and (65535, 1, 0) for L = 65536.
C19_BodyChunks ==
    \A c \in Slots :
        LET log   == out[c]
            stdin == StdinOf(log)
            lens  == StdinLengths(log)
            L     == arg[log[1].by].req.Body
            n     == (L + 65534) \div 65535
        IN  (log # <<>> /\ \E i \in DOMAIN lens : lens[i] = 0) =>
                /\ Len(stdin) = n + 1
                /\ lens[n + 1] = 0
                /\ \A i \in 1..n :
                       /\ 0 < lens[i] /\ lens[i] <= 65535
                       /\ stdin[i].rec.header.ContentLength = lens[i]
                       /\ stdin[i].rec.data.of[2] - stdin[i].rec.data.of[1] = lens[i]
                       /\ stdin[i].rec.data.of[1] = (IF i = 1 THEN 0 ELSE stdin[i - 1].rec.data.of[2])
                /\ n > 0 => stdin[n].rec.data.of[2] = L
                /\ L = 0 => lens = <<0>>
                /\ L = 65535 => lens = <<65535, 0>>
                /\ L = 65536 => lens = <<65535, 1, 0>>

\* sendBody has sent a body of 65536 bytes as 65535 bytes, one byte and the
\* empty record.
C19_Witness ==
    \E c \in Slots :
        /\ out[c] # <<>>
        /\ arg[out[c][1].by].req.Body = 65536
        /\ StdinLengths(out[c]) = <<65535, 1, 0>>

\* The records written on a connection.
RecordsOf(log) == {log[i].rec : i \in {j \in DOMAIN log : log[j].kind = "write"}}

\* C20: in every record writeRecord has written the padding length of the
\* header is (-content length) mod 8, hence from 0 to 7 and such that
\* content and padding together are a multiple of 8 bytes, and the payload
\* is followed by exactly that many zero bytes.
C20_Padding ==
    \A c \in Slots : \A rec \in RecordsOf(out[c]) :
        /\ rec.header.PaddingLength = (0 - rec.data.len) % 8
        /\ rec.header.PaddingLength = (0 - rec.header.ContentLength) % 8
        /\ rec.header.PaddingLength \in 0..7
        /\ (rec.data.len + rec.header.PaddingLength) % 8 = 0
        /\ Len(rec.pad) = rec.header.PaddingLength
        /\ \A i \in DOMAIN rec.pad : rec.pad[i] = 0

\* A doRequest has written a record padded with seven bytes, one padded
\* with one byte and one without padding.
C20_Witness ==
    \E c \in Slots :
        /\ \E rec \in RecordsOf(out[c]) : rec.header.PaddingLength = 7 /\ rec.data.len = 25
        /\ \E rec \in RecordsOf(out[c]) : rec.header.PaddingLength = 1 /\ rec.data.len = 65535
        /\ \E rec \in RecordsOf(out[c]) : rec.header.PaddingLength = 0 /\ rec.data.len = 8

(***************************************************************************)
(* Properties of the shutdown.                                             *)
(***************************************************************************)
C21_Step ==
    /\ phase # "running" => \A r \in Requests : hpc[r] = "idle" => hpc'[r] = "idle"
    /\ (nClosed' # nClosed \/ \E c \in Slots : Conn[c] /\ ~Conn'[c] /\ c \notin Range(conn))
           => /\ phase = "closing"
              /\ \A r \in Requests : hpc[r] # "select"
              /\ nClosed' = nClosed + 1
    /\ phase' = "closing" => phase \in {"draining", "closing"}
    /\ (phase # "closed" /\ phase' = "closed")
           => /\ phase = "closing"
              /\ nClosed' = FpmPoolSize
              /\ \A c \in Slots : ~Conn'[c]
              /\ \A r \in Requests : conn'[r] = NoConn

C22_AllOrNothing ==
    out[1].ret # <<>> =>
        LET res  == out[1].ret[1]
            size == arg[1]
        IN  IF \A k \in DOMAIN out[1].dials : out[1].dials[k]
            THEN /\ res.err = Nil
                 /\ res.client # <<>>
                 /\ Len(res.client[1].Pool) = size
                 /\ \A k \in 1..size : res.client[1].Pool[k].id = k - 1
                 /\ size = FpmPoolSize =>
                        [k \in 1..size |-> res.client[1].Pool[k].id] = NewFCgiClient
            ELSE /\ res.err # Nil
                 /\ res.client = <<>>

\* The third dial of NewFCgiClient has failed.
C22_Witness ==
    /\ out[1].ret # <<>>
    /\ out[1].dials = <<TRUE, TRUE, FALSE>>
    /\ Len(out[1].conns) = 2
    /\ out[1].ret[1].err # Nil

(***************************************************************************)
(* Properties of the order in which the pool serves its callers.           *)
(***************************************************************************)
\* The callers that called findConnection after w and have received a slot.
ServedAfter(w) == {v \in Range(out.served) : v > w}

\* C23, as claimed: while a caller waits for a connection, the callers that
\* arrived after it and were served before it are at most FpmPoolSize.
C23_BoundedBypass ==
    \A w \in Callers :
        out.pc[w] \in {"waiting", "logging"} => Cardinality(ServedAfter(w)) <= FpmPoolSize

(***************************************************************************)
(* Properties of the observations and of the log.                          *)
(***************************************************************************)
\* The request r has been answered with the response of FPM, body included.
Succeeded(r) == hpc[r] = "served" /\ hlog[r] = <<>>

C24_Observed ==
    \A r \in Requests :
        /\ Len(fpmObs[r]) <= 1
        /\ Succeeded(r) =>
               /\ Len(fpmObs[r]) = 1 /\ Len(httpObs[r]) = 1
               /\ fpmObs[r][1].type = "fpm" /\ httpObs[r][1].type = "http"
               /\ httpObs[r][1].code = fpmObs[r][1].code
               /\ httpObs[r][1].endpoint = fpmObs[r][1].endpoint
               /\ fpmObs[r][1].code = Itoa(fpmResponse[r][1].Status)
               /\ fpmObs[r][1].endpoint = fpmResponse[r][1].Route
        /\ fpmErr[r] \in {"could not send the request", "could not reconnect"} =>
               fpmObs[r] = << [type |-> "fpm", code |-> "0", endpoint |-> ""] >>

C24_ObservedStep ==
    \A r \in Requests :
        /\ fpmObs'[r] # fpmObs[r] => wpc[r] \in {"doRequest", "reconnect"} /\ wpc'[r] = "finished"
        /\ (httpObs'[r] # httpObs[r] /\ hpc'[r] = "served") => Len(fpmObs[r]) = 1

\* C24: a request answered with the response of FPM has exactly two
\* observations, one of the FPM leg, made when SendRequest returned, with
\* the status and the route of the response, and after it one of the HTTP
\* leg with the same status and route; no request has more than one
\* observation of the FPM leg, and when SendRequest failed that observation
\* has the status 0 and an empty route.
C24_TwoObservations == [](C24_Observed) /\ [][C24_ObservedStep]_vars

\* A request is answered after a retry with the response of FPM, which names
\* a route, and the SendRequest of another request has failed.
C24_Witness ==
    /\ \E r \in Requests :
          /\ Succeeded(r) /\ events[r].doReq = 2
          /\ Len(httpObs[r]) = 1 /\ httpObs[r][1].endpoint # ""
    /\ \E r \in Requests : fpmErr[r] = "could not send the request" /\ Len(fpmObs[r]) = 1

\* C25, as claimed: a request answered with 500 after an error of Call, or
\* with 408 after the deadline, has a log entry at error level and an
\* observation of the HTTP leg.
C25_ErrorsLogged ==
    \A r \in Requests :
        hpc[r] \in {"error", "timeout"} =>
            /\ \E i \in DOMAIN hlog[r] : hlog[r][i].level = "error"
            /\ Len(httpObs[r]) = 1

(***************************************************************************)
(* Properties of the records read and written.                             *)
(***************************************************************************)
\* C30: a header written by binary.Write is eight bytes, each from 0 to
\* 255, and binary.Read gives back from them the header that was written.
C30_HeaderRoundTrip ==
    /\ Len(out) >= 1 => Len(out[1]) = 8 /\ \A i \in 1..8 : out[1][i] \in 0..255
    /\ Len(out) = 2 => out[2] = arg[1]

\* The header of a record of request 258 with 513 bytes of content has been
\* written and read.
C30_Witness ==
    /\ Len(out) = 2
    /\ arg[1].RequestId = 258 /\ arg[1].ContentLength = 513
    /\ out[1] = <<1, arg[1].Type, 1, 2, 2, 1, arg[1].PaddingLength, 0>>

\* The bytes the first k of the records take on the socket, the first of
\* the records that ends the request, and the content of the STDOUT
\* records of the request among the first k.
RECURSIVE BoundaryAt(_, _)
BoundaryAt(records, k) ==
    IF k = 0 THEN 0
    ELSE BoundaryAt(records, k - 1) + 8 + Size(records[k].content) + records[k].padding

FirstEnd(records) ==
    CHOOSE k \in DOMAIN records :
        /\ records[k].header.Type = 3 /\ records[k].header.RequestId = ReadId
        /\ \A j \in 1..(k - 1) :
               ~(records[j].header.Type = 3 /\ records[j].header.RequestId = ReadId)

RECURSIVE ExpectedStdout(_, _)
ExpectedStdout(records, k) ==
    IF k = 0 THEN <<>>
    ELSE IF records[k].header.Type = 6 /\ records[k].header.RequestId = ReadId
         THEN Concat(ExpectedStdout(records, k - 1), records[k].content)
         ELSE ExpectedStdout(records, k - 1)

\* Up to the end of the request every record is of the request, or is a
\* bare header, and has at most 65535 bytes of content and padding.
AllOfRequest(records) ==
    \A k \in 1..FirstEnd(records) :
        /\ records[k].header.RequestId = ReadId \/ Size(records[k].content) + records[k].padding = 0
        /\ Size(records[k].content) + records[k].padding <= 65535

RoundAt(k) ==
    /\ out.last # <<>>
    /\ k \in DOMAIN arg.records
    /\ out.last[1].at = BoundaryAt(arg.records, k - 1)

\* C27, as claimed: a round that reads the header of a record of another
\* request leaves the stream at the end of that record.
C27_SkipsWholeRecord ==
    \A k \in DOMAIN arg.records :
        (RoundAt(k) /\ arg.records[k].header.RequestId # arg.requestId)
            => out.pos = BoundaryAt(arg.records, k)

\* C28, as claimed: a round that reads the header of a record of the
\* request reads after it as many bytes as the content length and the
\* padding length of the header say, and leaves the stream at the end of
\* the record.
C28_PayloadRead ==
    \A k \in DOMAIN arg.records :
        (RoundAt(k) /\ arg.records[k].header.RequestId = arg.requestId)
            => /\ out.state # "panic"
               /\ out.last[1].took = Size(arg.records[k].content) + arg.records[k].padding
               /\ out.pos = BoundaryAt(arg.records, k)

\* The number four bytes hold in the four-byte form of a length.
Len32Value(b) == (b[1] - 128) * 16777216 + b[2] * 65536 + b[3] * 256 + b[4]

\* C29: once sendParams has sent the empty PARAMS record, the PARAMS records
\* before it are one for each entry of the parameter table, each holding
\* the length of the key and the length of the value, four bytes each, the
\* high byte first and its high bit set, then the key and the value: 8
\* bytes and the two lengths in all; and the empty PARAMS record is one.
C29_ParamRecords ==
    \A c \in Slots :
        LET log    == out[c]
            params == {i \in DOMAIN log : log[i].kind = "write" /\ log[i].rec.header.Type = 4}
            pairs  == {i \in params : log[i].rec.data.len > 0}
            table  == arg[log[1].by].req.Params
        IN  (log # <<>> /\ pairs # params) =>
                /\ Cardinality(params \ pairs) = 1
                /\ \A i \in pairs : \A j \in params \ pairs : i < j
                /\ Cardinality(pairs) = Cardinality(DOMAIN table)
                /\ \A k \in DOMAIN table : \E i \in pairs :
                       LET of == log[i].rec.data.of
                       IN  /\ Len(of) = 4
                           /\ of[3] = k /\ of[4] = table[k]
                           /\ Len(of[1]) = 4 /\ Len(of[2]) = 4
                           /\ \A n \in 1..4 : of[1][n] \in 0..255 /\ of[2][n] \in 0..255
                           /\ of[1][1] >= 128 /\ of[2][1] >= 128
                           /\ Len32Value(of[1]) = Len(k)
                           /\ Len32Value(of[2]) = Len(table[k])
                           /\ log[i].rec.data.len = 8 + Len(k) + Len(table[k])

\* sendParams has sent the three parameters of a request with a body,
\* CONTENT_LENGTH among them, and the empty record.
C29_Witness ==
    \E c \in Slots :
        /\ Len(out[c]) >= 5
        /\ PlacesOf(SubSeq(out[c], 1, 5)) = <<1, 2, 2, 2, 3>>
        /\ \E i \in 2..4 : out[c][i].rec.data.of[3] = K_CONTENT_LENGTH

(***************************************************************************)
(* Properties of the response of the handler.                              *)
(***************************************************************************)
\* The steps of the goroutine that runs Call.
WorkerStep(r) == Call(r) \/ findConnection(r) \/ doRequest(r) \/ reconnect(r)

\* The handler writes at most one response, none before it left the select,
\* and no step of the goroutine touches the response writer.
C31_AtMostOnce ==
    \A r \in Requests :
        /\ Len(writer[r]) <= 1
        /\ hpc[r] \in {"idle", "select"} => writer[r] = <<>>
        /\ hpc[r] \in {"timeout", "error", "served"} => Len(writer[r]) = 1

C31_WorkerStep == \A r \in Requests : WorkerStep(r) => writer' = writer

C31_WorkerSilent == [][C31_WorkerStep]_vars

\* C31, as claimed: for every reply of FPM the handler writes the status
\* line and the body exactly once, as the 500 response or as the response of
\* FPM.
C31_WrittenOnce ==
    out # NoValue => Len(out[1].written) = 1

(***************************************************************************)
(* Properties of the retry of SendRequest.                                 *)
(***************************************************************************)
\* C32, as claimed: one SendRequest writes the whole request, from
\* BEGIN_REQUEST to the empty STDIN record, to FPM at most once.
C32_AtMostOnce ==
    \A r \in Requests : arg[r].whole <= 1

SendRequestSucceeds(r) ==
    /\ wpc[r] = "doRequest" /\ wpc'[r] = "finished"
    /\ fpmObs'[r][Len(fpmObs'[r])] # FpmFailureObs

C34_Step ==
    \A r \in Requests :
        LET c == conn[r] IN
        /\ (wpc[r] = "reconnect" /\ wpc'[r] = "finished") =>
               /\ ~Conn'[c]
               /\ Pool' = Append(Pool, c)
        /\ (wpc[r] = "reconnect" /\ wpc'[r] = "doRequest") =>
               /\ Conn'[c] /\ conn'[r] = c
               /\ events'[r].reconn = 1
        /\ (wpc[r] = "doRequest" /\ ~Conn[c] /\ wpc'[r] # "doRequest") =>
               /\ events[r].doReq = 0 /\ events[r].reconn = 0
               /\ wpc'[r] = "reconnect"
        /\ SendRequestSucceeds(r) =>
               /\ Conn[c]
               /\ events'[r].reconn <= 1
               /\ events'[r].reconn = events'[r].doReq - 1

\* C34: a failed reconnect ends SendRequest with the slot sent back to the
\* channel, its socket closed.  A request that holds a slot whose socket is
\* closed is at its first doRequest; that doRequest does not succeed, the
\* request reconnects, a reconnect that dials FPM leaves the slot with an
\* open socket for the retry, and a SendRequest succeeds only on an open
\* socket and after at most one reconnect.
C34_Recovery == [][C34_Step]_vars

\* A reconnect failed and the slot went back closed; a later request got
\* that slot, reconnected once and was answered with the response of FPM:
\* every socket is open again.
C34_Witness ==
    \E q \in Requests, r \in Requests :
        /\ q < r
        /\ fpmErr[q] = "could not reconnect" /\ events[q].rel = 1
        /\ events[r].acq = 1 /\ events[r].reconn = 1 /\ events[r].doReq = 2
        /\ fpmErr[r] = Nil /\ Succeeded(r)
        /\ \A c \in Slots : Conn[c]

\* C35, as claimed: in every record writeRecord has written the content
\* length of the header is the number of bytes of the payload that follow
\* the header.
C35_ContentLength ==
    \A c \in Slots : \A rec \in RecordsOf(out[c]) :
        rec.header.ContentLength = rec.data.len

(***************************************************************************)
(* Properties of the result variables of the handler.                      *)
(***************************************************************************)
C36_Step ==
    \A r \in Requests :
        /\ (fpmResponse'[r] # fpmResponse[r] \/ fpmErr'[r] # fpmErr[r]) =>
               /\ wpc[r] \in {"call", "doRequest", "reconnect"}
               /\ wpc'[r] = "finished"
               /\ hpc'[r] = hpc[r]
        /\ wpc[r] = "finished" =>
               /\ wpc'[r] = "finished"
               /\ fpmResponse'[r] = fpmResponse[r] /\ fpmErr'[r] = fpmErr[r]
        /\ (hpc[r] = "select" /\ hpc'[r] \in {"error", "served", "panic"}) =>
               /\ wpc[r] = "finished"
               /\ \E a \in AnswersOf(fpmResponse[r], fpmErr[r]) :
                     /\ hpc'[r] = a.exit
                     /\ writer'[r] = writer[r] \o a.written
        /\ (hpc[r] = "select" /\ hpc'[r] = "timeout") =>
               /\ writer'[r] = Append(writer[r], WriteTimeoutResponse)
               /\ wpc'[r] = wpc[r]
        /\ hpc[r] \in {"timeout", "error", "served", "panic"} =>
               /\ hpc'[r] = hpc[r] /\ writer'[r] = writer[r]

\* C36: fpmResponse and fpmErr of a request are written by the goroutine
\* only, in the step that ends with cancel(), and never after it; the
\* handler answers from them only once worker.Done() is closed, and reads
\* without writing; on the deadline it writes the 408 response, whatever
\* the two variables hold.
C36_ResultsRead == [][C36_Step]_vars

\* One request was answered from the result of Call after the goroutine
\* had finished; another was answered by the deadline while its goroutine
\* was in doRequest, the two variables not yet written.
C36_Witness ==
    \E r \in Requests, q \in Requests :
        /\ hpc[r] = "served" /\ wpc[r] = "finished" /\ fpmResponse[r] # NilData
        /\ writer[r] # <<>>
        /\ hpc[q] = "timeout" /\ wpc[q] = "doRequest"
        /\ fpmResponse[q] = NilData /\ fpmErr[q] = Nil
        /\ writer[q] = <<WriteTimeoutResponse>>

(***************************************************************************)
(* Properties of Close.                                                    *)
(***************************************************************************)
\* The slots that are neither in the channel nor held by a request: those
\* Close has received.
ClosedSlots == {c \in Slots : IdleCount(c) = 0 /\ HoldersOf(c) = {}}

\* Close has received nClosed slots, each once, and their sockets are
\* closed; when it has returned it has received all FpmPoolSize of them.
C37_Closed ==
    /\ Cardinality(ClosedSlots) = nClosed
    /\ \A c \in ClosedSlots : ~Conn[c]
    /\ \A c \in Slots : IdleCount(c) + Cardinality(HoldersOf(c)) <= 1
    /\ phase = "closed" => ClosedSlots = Slots /\ nClosed = FpmPoolSize
    /\ phase \in {"running", "draining"} => nClosed = 0

C37_Step ==
    /\ C37_Closed /\ C37_Closed'
    /\ nClosed' # nClosed =>
          /\ Pool # <<>> /\ Pool' = Tail(Pool)
          /\ HoldersOf(Head(Pool)) = {}
          /\ ClosedSlots' = ClosedSlots \cup {Head(Pool)}
          /\ Head(Pool) \notin ClosedSlots
          /\ ~Conn'[Head(Pool)]
          /\ \A c \in Slots \ {Head(Pool)} : Conn'[c] = Conn[c]
          /\ conn' = conn
          /\ nClosed' = nClosed + 1
    /\ nClosed' = nClosed => ClosedSlots' = ClosedSlots
    /\ \A r \in Requests :
          (conn[r] # NoConn /\ Conn[conn[r]] /\ ~Conn'[conn[r]]) =>
              /\ wpc[r] = "reconnect"
              /\ nClosed' = nClosed
    /\ (phase = "closing" /\ phase' = "closed") => nClosed = FpmPoolSize - 1

\* C37: an iteration of Close closes the socket of the slot it receives
\* from the channel, which no request holds, and no other socket; the
\* socket of a slot a request holds, the request answered by the deadline
\* or not, is closed by the reconnect of that request only; a slot Close
\* has received does not come back; and Close returns after FpmPoolSize
\* iterations.
C37_CloseReceived == [][C37_Step]_vars

\* Close has received a slot while a request answered by the deadline
\* holds another one, its socket open, in doRequest.
C37_Waiting ==
    \E r \in Requests :
        /\ phase = "closing"
        /\ hpc[r] = "timeout" /\ wpc[r] = "doRequest"
        /\ conn[r] # NoConn /\ Conn[conn[r]]
        /\ Pool = <<>>
        /\ nClosed = FpmPoolSize - 1

\* Close has returned after a request answered by the deadline finished
\* its exchange and sent its slot back during the shutdown.
C37_Witness ==
    \E r \in Requests :
        /\ phase = "closed" /\ nClosed = FpmPoolSize
        /\ hpc[r] = "timeout" /\ wpc[r] = "finished"
        /\ events[r].rel = 1 /\ events[r].reconn = 0
        /\ fpmErr[r] = Nil
        /\ \A c \in Slots : ~Conn[c]

====
